---------------------------- MODULE Spec2Model ----------------------------
(***************************************************************************)
(* Validation-and-fusion core of urban_splash_ftp.                         *)
(*                                                                         *)
(*   SpecEval    the row loop of evaluate_parameter (processor/qc_checks)  *)
(*   SpecEngine  QCEngine.process_file and _build_cleaned_df               *)
(*   SpecCombine combine_pair followed by align_combined_rows              *)
(*   SpecMerge   merge_coliminder_into_file                                *)
(*   SpecFusion  one fusion pass of either mode                            *)
(*   SpecGeneral update_general_file / update_aligned_general_file, one    *)
(*               writer                                                    *)
(*   SpecRace    two invocations of one of them on the same file           *)
(*   SpecMaintenance load_maintenance_periods, then flag_maintenance       *)
(*   SpecMatch   match_raw_column                                          *)
(*   SpecApplicable applicable_checks                                      *)
(*   SpecFormat  evaluate_parameter with the format check applicable       *)
(*   SpecRelocate align_microflu_rows_to_primary_measurements              *)
(*   SpecServer  the FTP handler and the processing worker of ftp_server   *)
(*   SpecServerFair the same, the worker thread scheduled fairly           *)
(*   SpecFetch   runs of check_for_update of coliminder_fetcher            *)
(*   SpecWatch   run_watch: the watchdog handler thread and the polling    *)
(*               sweep of the main thread                                  *)
(*                                                                         *)
(* Cells are text in the program.  A cell is modelled as a record: a       *)
(* non-numeric text s, or a decimal numeral with mantissa m and d digits   *)
(* after the point (Num(20, 1) is the text "2.0"; Sci(15, 1) is "1.5e0").  *)
(* Parsed numbers are                                                      *)
(* kept in hundredths, so "2" and "2.0" both parse to 200.  Floating-point *)
(* rounding, "inf" and signed "nan" texts are outside the model.           *)
(***************************************************************************)
EXTENDS Integers, Sequences, FiniteSets, TLC

VARIABLES
    \* evaluate_parameter: arguments, loop position, locals, results
    series, rules, global_checks, metadata_index, idx,
    last_value, streak_count, previous_numeric, flag_columns, qc_flags,
    \* QCEngine.process_file: the raw file, the configuration and the diary
    \* (global_checks is config.checks, metadata_index the row it designates),
    \* what it returned and the two files it wrote
    file, params_for_origin, maintenance_periods, engine_result,
    flagged_file, cleaned_file,
    \* combine_pair and align_combined_rows: the two cleaned files as loaded,
    \* the combined table, the locals of the alignment loop and its results
    obs_file, coli_file, combined_rows, obs, coli, coli_pos,
    assignments, assigned_mask, aligned, stats, combine_pc,
    \* merge_coliminder_into_file: the Observator file and the ColiMinder
    \* export on disk, the frames df (merge_df) and col_df, the position of the loop over
    \* col_df, its two dictionaries, what was logged and returned
    observator_file, coliminder_path, merge_df, col_df, col_pos,
    merge_assignments, merge_diffs, merge_log, merge_returned, merge_written,
    merge_pc,
    \* update_general_file and update_aligned_general_file: the two general
    \* files on disk, the first row ever submitted under each key, and for
    \* every invocation in flight the file it works on, its new_rows, the
    \* existing_data it has read and its position; both_read records that
    \* two invocations had read before either wrote
    general_file, aligned_general_file, general_history, aligned_history,
    writer_target, writer_new_rows, writer_existing, writer_pc, both_read,
    \* refused records that a call submitted a row under a key already stored
    \* with other values
    refused,
    \* load_maintenance_periods and flag_maintenance: the diary on disk, the
    \* periods loaded from it, the timestamps given and the flags returned
    diary_path, maint_periods, maint_timestamps, maint_flags,
    \* match_raw_column: its two arguments and what it returned
    raw_headers, raw_candidates, matched_column,
    \* applicable_checks: param.rules as the configuration declares them, and
    \* what the call returned for them and global_checks
    param_rules, param_checks,
    \* _align_microflu_rows_to_primary_measurements on its own: the frame given and the frame left
    \* after its loop over best_sources (reloc_moved)
    reloc_df, reloc_moved, reloc_out,
    \* ftp_server/server: the two directories, the queue, the handler's rename source, the worker thread's position, and the history of put and get
    upload_dir, raw_input_dir, processing_queue, last_rnfr, rnfr, worker_pc, file_path, raised, unfinished_tasks, put_log, get_log, enable_azure_uploads,
    \* coliminder_fetcher: the download directory, the two state files, the configured file name, and what the last run of check_for_update was given and returned
    download_dir, last_timestamp, last_csv_hash, fetch_returned, fetch_run, fetch_count, csv_filename,
    \* engine main in watch mode: the input folder, the events not yet dispatched, the shared mtime tracker, the file each thread is processing, the polling loop's position, and the versions processed with output
    raw_dir, watch_events, mtime_tracker, handler_job, sweep_pc, sweep_pending, sweep_job, processed_log

evalVars == <<series, rules, global_checks, metadata_index, idx,
              last_value, streak_count, previous_numeric, flag_columns, qc_flags>>

engineVars == <<file, params_for_origin, maintenance_periods, engine_result,
                flagged_file, cleaned_file>>

combineVars == <<obs_file, coli_file, combined_rows, obs, coli, coli_pos,
                 assignments, assigned_mask, aligned, stats, combine_pc>>

mergeVars == <<observator_file, coliminder_path, merge_df, col_df, col_pos,
               merge_assignments, merge_diffs, merge_log, merge_returned,
               merge_written, merge_pc>>

generalVars == <<general_file, aligned_general_file, general_history, aligned_history,
                 writer_target, writer_new_rows, writer_existing, writer_pc, both_read,
                 refused>>

\* the functions checked on their own: load_maintenance_periods and
\* flag_maintenance, match_raw_column, applicable_checks
unitVars == <<diary_path, maint_periods, maint_timestamps, maint_flags,
              raw_headers, raw_candidates, matched_column, param_rules, param_checks>>

relocVars == <<reloc_df, reloc_moved, reloc_out>>

serverVars == <<upload_dir, raw_input_dir, processing_queue, last_rnfr, rnfr, worker_pc, file_path, raised, unfinished_tasks, put_log, get_log, enable_azure_uploads>>

fetchVars == <<download_dir, last_timestamp, last_csv_hash, fetch_returned, fetch_run, fetch_count, csv_filename>>

watchVars == <<raw_dir, watch_events, mtime_tracker, handler_job, sweep_pc, sweep_pending, sweep_job, processed_log>>

vars == <<evalVars, engineVars, combineVars, mergeVars, generalVars, unitVars, relocVars, serverVars, fetchVars, watchVars>>

-----------------------------------------------------------------------------
(* Bounds of the model *)

MaxRows == 3

-----------------------------------------------------------------------------
(* Values shared by all components *)

PASS == "PASS"
FAIL == "FAIL"

None == <<>>
Some(v) == <<v>>
Val(o) == o[1]

Abs(x) == IF x < 0 THEN -x ELSE x

Range(s) == {s[i] : i \in 1..Len(s)}

SeqsUpTo(S, n) == UNION {[1..k -> S] : k \in 0..n}

Txt(s) == [k |-> "txt", s |-> s, m |-> 0, d |-> 0]
Num(m, d) == [k |-> "num", s |-> "", m |-> m, d |-> d]

\* str.strip() and str.lower() on the non-numeric texts of the model
Strip(s) == IF s = "  " THEN "" ELSE s
Lower(s) == CASE s = "NaN" -> "nan"
              [] s = "NA" -> "na"
              [] s = "None" -> "none"
              [] OTHER -> s

is_missing(value) ==
    /\ value.k = "txt"
    /\ \/ Strip(value.s) = ""
       \/ Lower(Strip(value.s)) \in {"na", "nan", "none"}

Pow10(n) == CASE n = 0 -> 1 [] n = 1 -> 10 [] OTHER -> 100

\* float(str(value).strip()), in hundredths; None when missing or no numeral
to_float(value) ==
    IF is_missing(value) THEN None
    ELSE IF value.k = "num"
         THEN Some(value.m * Pow10(2 - value.d))
         ELSE None

\* a whole number of the rule set, in hundredths
F(n) == n * 100

\* a numeral in exponent notation: the digits m with d of them after the
\* point, followed by "e0", as in "1.5e0"
Sci(m, d) == [k |-> "num", s |-> "e0", m |-> m, d |-> d]

\* len() of what follows the digits of a numeral
SuffixLen(s) == IF s = "e0" THEN 2 ELSE 0

\* len(text.split(".")[-1]): everything after the point is counted
count_decimals(value) ==
    IF is_missing(value) THEN 0
    ELSE IF value.k = "num" /\ value.d > 0 THEN value.d + SuffixLen(value.s) ELSE 0

-----------------------------------------------------------------------------
(* processor/qc_checks.py: applicable_checks and evaluate_parameter *)

\* default of the missing_ok parameter; no caller passes another value
missing_ok == FALSE

Append_if(cond, s, e) == IF cond THEN Append(s, e) ELSE s

\* an applicable_checks that runs the spike check whatever its toggle
applicable_checks_spike_untoggled(r, checks) ==
    LET c1 == Append_if(checks["numeric"] /\ r.numeric_required, <<>>, "numeric")
        c2 == Append_if(checks["completeness"] /\ ~r.allow_nulls, c1, "completeness")
        c3 == Append_if(checks["format"] /\ r.decimal_max # None, c2, "format")
        c4 == Append_if(checks["range"] /\ (r.min_value # None \/ r.max_value # None),
                        c3, "range")
        c5 == Append_if(checks["nonnegative"] /\ r.nonnegative_required, c4, "nonnegative")
        c6 == Append_if(r.max_delta_per_step # None, c5, "spike")
        c7 == Append_if(checks["flatline"] /\ r.streak_threshold # None
                            /\ Val(r.streak_threshold) # 0, c6, "flatline")
    IN  Append_if(r.allowed_values # None, c7, "allowed_values")

applicable_checks(r, checks) ==
    LET c1 == Append_if(checks["numeric"] /\ r.numeric_required, <<>>, "numeric")
        c2 == Append_if(checks["completeness"] /\ ~r.allow_nulls, c1, "completeness")
        c3 == Append_if(checks["format"] /\ r.decimal_max # None, c2, "format")
        c4 == Append_if(checks["range"] /\ (r.min_value # None \/ r.max_value # None),
                        c3, "range")
        c5 == Append_if(checks["nonnegative"] /\ r.nonnegative_required, c4, "nonnegative")
        c6 == Append_if(checks["spike"] /\ r.max_delta_per_step # None, c5, "spike")
        c7 == Append_if(checks["flatline"] /\ r.streak_threshold # None
                            /\ Val(r.streak_threshold) # 0, c6, "flatline")
    IN  Append_if(r.allowed_values # None, c7, "allowed_values")

\* raw text equals str(allowed_val), or both are numerals of equal value
allowed_match(raw, allowed) ==
    \E i \in 1..Len(allowed) :
        \/ raw = allowed[i]
        \/ /\ to_float(raw) # None
           /\ to_float(allowed[i]) # None
           /\ to_float(allowed[i]) = to_float(raw)

\* a spike branch that lets a missing or non-numeric row clear the reference
spike_reference_cleared(raw, st) == to_float(raw)

\* the state the spike branch leaves behind
spike_reference(raw, st) ==
    IF to_float(raw) = None THEN st.previous_numeric ELSE to_float(raw)

\* a flatline branch that keeps the run across a missing or non-numeric row
flatline_state_kept(raw, st) ==
    LET numeric_val == to_float(raw)
    IN  IF numeric_val = None
        THEN [last_value |-> st.last_value, streak_count |-> st.streak_count]
        ELSE [last_value |-> numeric_val,
              streak_count |-> IF st.last_value # None /\ numeric_val = st.last_value
                               THEN st.streak_count + 1 ELSE 1]

\* the state the flatline branch leaves behind
flatline_state(raw, st) ==
    LET numeric_val == to_float(raw)
    IN  IF numeric_val = None THEN [last_value |-> None, streak_count |-> 0]
        ELSE [last_value |-> numeric_val,
              streak_count |-> IF st.last_value # None /\ numeric_val = st.last_value
                               THEN st.streak_count + 1 ELSE 1]

\* the flag one check gives a row; st holds the state carried across rows
check_flag(check, raw, r, st) ==
    LET missing == is_missing(raw)
        numeric_val == IF ~missing THEN to_float(raw) ELSE None
        absent_flag == IF missing_ok THEN PASS ELSE FAIL
    IN  CASE check = "completeness" ->
                IF ~missing \/ missing_ok THEN PASS ELSE FAIL
          [] check = "numeric" ->
                IF numeric_val # None \/ missing_ok THEN PASS ELSE FAIL
          [] check = "format" ->
                IF numeric_val = None THEN absent_flag
                ELSE IF count_decimals(raw) <= Val(r.decimal_max) THEN PASS ELSE FAIL
          [] check = "range" ->
                IF numeric_val = None THEN absent_flag
                ELSE LET too_low == r.min_value # None /\ Val(numeric_val) < Val(r.min_value)
                         too_high == r.max_value # None /\ Val(numeric_val) > Val(r.max_value)
                     IN  IF too_low \/ too_high THEN FAIL ELSE PASS
          [] check = "nonnegative" ->
                IF numeric_val = None THEN absent_flag
                ELSE IF Val(numeric_val) >= 0 THEN PASS ELSE FAIL
          [] check = "spike" ->
                IF numeric_val = None THEN PASS
                ELSE IF st.previous_numeric = None THEN PASS
                ELSE IF Abs(Val(numeric_val) - Val(st.previous_numeric))
                            > Val(r.max_delta_per_step)
                     THEN FAIL ELSE PASS
          [] check = "flatline" ->
                IF numeric_val = None THEN PASS
                ELSE IF /\ r.streak_threshold # None
                        /\ Val(r.streak_threshold) # 0
                        /\ flatline_state(raw, st).streak_count >= Val(r.streak_threshold)
                     THEN FAIL ELSE PASS
          [] check = "allowed_values" ->
                IF missing THEN absent_flag
                ELSE IF allowed_match(raw, Val(r.allowed_values)) THEN PASS ELSE FAIL

\* an aggregate that fails a row only when every check failed it
aggregate_flag_when_all_fail(row_results) ==
    IF DOMAIN row_results # {} /\ \A c \in DOMAIN row_results : row_results[c] = FAIL
    THEN FAIL ELSE PASS

\* FAIL if FAIL in row_results.values() else PASS
aggregate_flag(row_results) ==
    IF \E c \in DOMAIN row_results : row_results[c] = FAIL THEN FAIL ELSE PASS

\* one pass of the loop body over row i (0-based) holding raw
eval_row(st, i, raw, r, checks_to_run, meta) ==
    IF meta # None /\ i = Val(meta)
    THEN [last_value |-> None, streak_count |-> 0, previous_numeric |-> None,
          flag_columns |-> [c \in DOMAIN st.flag_columns |-> Append(st.flag_columns[c], "")],
          qc_flags |-> Append(st.qc_flags, "")]
    ELSE LET row_results == [c \in Range(checks_to_run) |-> check_flag(c, raw, r, st)]
             fl == IF "flatline" \in Range(checks_to_run)
                   THEN flatline_state(raw, st)
                   ELSE [last_value |-> st.last_value, streak_count |-> st.streak_count]
         IN  [last_value |-> fl.last_value,
              streak_count |-> fl.streak_count,
              previous_numeric |-> IF "spike" \in Range(checks_to_run)
                                   THEN spike_reference(raw, st)
                                   ELSE st.previous_numeric,
              flag_columns |-> [c \in DOMAIN st.flag_columns |->
                                   Append(st.flag_columns[c], row_results[c])],
              qc_flags |-> Append(st.qc_flags, aggregate_flag(row_results))]

eval_start(checks_to_run) ==
    [last_value |-> None, streak_count |-> 0, previous_numeric |-> None,
     flag_columns |-> [c \in Range(checks_to_run) |-> <<>>],
     qc_flags |-> <<>>]

RECURSIVE eval_rows(_, _, _, _, _, _)
eval_rows(st, i, s, r, checks_to_run, meta) ==
    IF i >= Len(s) THEN st
    ELSE eval_rows(eval_row(st, i, s[i + 1], r, checks_to_run, meta),
                   i + 1, s, r, checks_to_run, meta)

\* returns the flag columns and the aggregate flags of the whole series
evaluate_parameter(s, r, checks, meta) ==
    LET checks_to_run == applicable_checks(r, checks)
    IN  eval_rows(eval_start(checks_to_run), 0, s, r, checks_to_run, meta)

-----------------------------------------------------------------------------
(* The components a specification does not run stay idle *)

EngineIdle ==
    /\ file = <<>> /\ params_for_origin = <<>> /\ maintenance_periods = <<>>
    /\ engine_result = "" /\ flagged_file = None /\ cleaned_file = None

CombineIdle ==
    /\ obs_file = <<>> /\ coli_file = <<>> /\ combined_rows = <<>>
    /\ obs = <<>> /\ coli = <<>> /\ coli_pos = 0
    /\ assignments = <<>> /\ assigned_mask = <<>>
    /\ aligned = <<>> /\ stats = <<>> /\ combine_pc = "idle"

MergeIdle ==
    /\ observator_file = <<>> /\ coliminder_path = None
    /\ merge_df = <<>> /\ col_df = <<>> /\ col_pos = 0
    /\ merge_assignments = <<>> /\ merge_diffs = <<>>
    /\ merge_log = "" /\ merge_returned = None /\ merge_written = None
    /\ merge_pc = "idle"

GeneralIdle ==
    /\ general_file = None /\ aligned_general_file = None
    /\ general_history = {} /\ aligned_history = {}
    /\ writer_target = <<>> /\ writer_new_rows = <<>> /\ writer_existing = <<>>
    /\ writer_pc = <<>> /\ both_read = FALSE /\ refused = FALSE

UnitIdle ==
    /\ diary_path = None /\ maint_periods = None
    /\ maint_timestamps = <<>> /\ maint_flags = None
    /\ raw_headers = <<>> /\ raw_candidates = <<>> /\ matched_column = None
    /\ param_rules = None /\ param_checks = None

RelocIdle == reloc_df = None /\ reloc_moved = None /\ reloc_out = None

FetchIdle ==
    /\ download_dir = <<>> /\ last_timestamp = None /\ last_csv_hash = None
    /\ fetch_returned = None /\ fetch_run = None /\ fetch_count = 0
    /\ csv_filename = ""

WatchIdle ==
    /\ raw_dir = <<>> /\ watch_events = {} /\ mtime_tracker = <<>>
    /\ handler_job = None /\ sweep_pc = "idle" /\ sweep_pending = <<>>
    /\ sweep_job = None /\ processed_log = <<>>

ServerIdle ==
    /\ upload_dir = {} /\ raw_input_dir = {} /\ processing_queue = <<>>
    /\ last_rnfr = None /\ rnfr = None
    /\ worker_pc = "idle" /\ file_path = None /\ raised = FALSE
    /\ unfinished_tasks = 0 /\ put_log = <<>> /\ get_log = <<>>
    /\ enable_azure_uploads = FALSE

-----------------------------------------------------------------------------
(* SpecEval: evaluate_parameter reading a series row by row *)

CheckKinds == {"numeric", "completeness", "format", "range", "nonnegative",
               "spike", "flatline", "allowed_values"}

AllOn == [c \in CheckKinds |-> TRUE]
AllOff == [c \in CheckKinds |-> FALSE]

\* cell texts of the series: "", "NaN", "abc", "2", "2.0", "3", "5"
EvalCells == {Txt(""), Txt("NaN"), Txt("abc"),
              Num(2, 0), Num(20, 1), Num(3, 0), Num(5, 0)}

\* the value rules of a parameter: none, or decimal_max 0, range [2, 3],
\* nonnegative and allowed value "2"
ValueRules ==
    {[decimal_max |-> None, min_value |-> None, max_value |-> None,
      nonnegative_required |-> FALSE, allowed_values |-> None],
     [decimal_max |-> Some(0), min_value |-> Some(F(2)), max_value |-> Some(F(3)),
      nonnegative_required |-> TRUE, allowed_values |-> Some(<<Num(2, 0)>>)]}

EvalRules ==
    {[numeric_required |-> nr, allow_nulls |-> an,
      decimal_max |-> vr.decimal_max, min_value |-> vr.min_value,
      max_value |-> vr.max_value, nonnegative_required |-> vr.nonnegative_required,
      max_delta_per_step |-> sp, streak_threshold |-> fk,
      allowed_values |-> vr.allowed_values, timestamp_format |-> None] :
        nr \in BOOLEAN, an \in BOOLEAN, vr \in ValueRules,
        sp \in {None, Some(F(1))}, fk \in {None, Some(2), Some(3)}}

checks_to_run == applicable_checks(rules, global_checks)

EvalInit ==
    /\ series = <<>>
    /\ rules \in EvalRules
    /\ global_checks \in {AllOn, AllOff}
    /\ metadata_index \in {None, Some(0)}
    /\ idx = 0
    /\ last_value = None
    /\ streak_count = 0
    /\ previous_numeric = None
    /\ flag_columns = [c \in Range(checks_to_run) |-> <<>>]
    /\ qc_flags = <<>>
    /\ EngineIdle
    /\ CombineIdle
    /\ MergeIdle
    /\ GeneralIdle
    /\ UnitIdle
    /\ RelocIdle
    /\ ServerIdle
    /\ FetchIdle
    /\ WatchIdle

\* the loop body of evaluate_parameter on the next row of the series, which
\* holds one of cells
EvalRowFrom(cells) ==
    /\ idx < MaxRows
    /\ \E raw \in cells :
        LET st == eval_row([last_value |-> last_value, streak_count |-> streak_count,
                            previous_numeric |-> previous_numeric,
                            flag_columns |-> flag_columns, qc_flags |-> qc_flags],
                           idx, raw, rules, checks_to_run, metadata_index)
        IN  /\ series' = Append(series, raw)
            /\ idx' = idx + 1
            /\ last_value' = st.last_value
            /\ streak_count' = st.streak_count
            /\ previous_numeric' = st.previous_numeric
            /\ flag_columns' = st.flag_columns
            /\ qc_flags' = st.qc_flags
    /\ UNCHANGED <<rules, global_checks, metadata_index, engineVars, combineVars, mergeVars, generalVars, unitVars, relocVars, serverVars, fetchVars, watchVars>>

EvalNextRow == EvalRowFrom(EvalCells)

EvalNext == EvalNextRow

SpecEval == EvalInit /\ [][EvalNext]_vars

-----------------------------------------------------------------------------
(* Properties of evaluate_parameter *)

IsMetaRow(i) == metadata_index # None /\ i - 1 = Val(metadata_index)
DataRows == {i \in 1..Len(series) : ~IsMetaRow(i)}
IsNumericRow(i) == i \in DataRows /\ to_float(series[i]) # None
NumericBefore(i) == {j \in 1..(i - 1) : IsNumericRow(j)}
LastNumericBefore(i) == CHOOSE j \in NumericBefore(i) : \A h \in NumericBefore(i) : h <= j
RowValue(i) == Val(to_float(series[i]))

\* C2: with the spike check applicable and max_delta_per_step = t, a numeric
\* row's spike flag is FAIL iff an earlier numeric row exists and the value
\* differs from the most recent earlier numeric value by more than t; a
\* missing or non-numeric row gets PASS and leaves the reference unchanged,
\* so the reference is always the value of the most recent numeric row.
C2_SpikeAgainstLastNumeric ==
    "spike" \in Range(checks_to_run) =>
        /\ \A i \in DataRows :
              flag_columns["spike"][i] =
                 IF /\ IsNumericRow(i)
                    /\ NumericBefore(i) # {}
                    /\ Abs(RowValue(i) - RowValue(LastNumericBefore(i)))
                          > Val(rules.max_delta_per_step)
                 THEN FAIL ELSE PASS
        /\ previous_numeric =
              IF NumericBefore(Len(series) + 1) = {} THEN None
              ELSE Some(RowValue(LastNumericBefore(Len(series) + 1)))

\* a spike FAIL measured across a missing or non-numeric row
C2_Witness ==
    /\ "spike" \in Range(checks_to_run)
    /\ Len(series) = 3
    /\ IsNumericRow(1) /\ ~IsNumericRow(2) /\ IsNumericRow(3)
    /\ flag_columns["spike"] = <<PASS, PASS, FAIL>>

SameValue(i, j) == IsNumericRow(i) /\ IsNumericRow(j) /\ RowValue(i) = RowValue(j)

\* length of the unbroken run of rows holding the value of row i and ending at i
RunLength(i) ==
    CHOOSE n \in 1..i :
        /\ \A j \in (i - n + 1)..i : SameValue(j, i)
        /\ n = i \/ ~SameValue(i - n, i)

\* C3: with the flatline check applicable and streak_threshold = k, the
\* flatline flag of a numeric row is FAIL iff the unbroken run of consecutive
\* rows holding the same numeric value and ending at that row has length
\* >= k; the run length restarts at 1 after a differing value and at 0 after
\* a missing or non-numeric value (whose own flag is PASS).
C3_FlatlineRunLength ==
    "flatline" \in Range(checks_to_run) =>
        /\ \A i \in DataRows :
              flag_columns["flatline"][i] =
                 IF IsNumericRow(i) /\ RunLength(i) >= Val(rules.streak_threshold)
                 THEN FAIL ELSE PASS
        /\ streak_count =
              IF Len(series) > 0 /\ IsNumericRow(Len(series))
              THEN RunLength(Len(series)) ELSE 0

\* a run of three equal values written as "2", "2.0", "2" reaching k = 3
C3_Witness ==
    /\ "flatline" \in Range(checks_to_run)
    /\ rules.streak_threshold = Some(3)
    /\ series = <<Num(2, 0), Num(20, 1), Num(2, 0)>>
    /\ flag_columns["flatline"] = <<PASS, PASS, FAIL>>

NullTolerantChecks == {"numeric", "format", "range", "allowed_values"}

\* C9: for a parameter with allow_nulls = true, a missing value yields PASS
\* for the numeric, format, range and allowed_values checks.
C9_MissingPassesWhenNullsAllowed ==
    rules.allow_nulls =>
        \A i \in DataRows :
            is_missing(series[i]) =>
                \A c \in NullTolerantChecks \cap Range(checks_to_run) :
                    flag_columns[c][i] = PASS

-----------------------------------------------------------------------------
(* taltech_code/engine/src/qc_engine.py and ftp_server/processor/maintenance.py *)

\* A table is [columns: sequence of column names, rows: sequence of rows], a
\* row a function from the column names to cells.  A column name is a record:
\* a raw header, or one of the names process_file builds
\* ("<key>_<check>_flag", "<key>_qc_flag", "origin", ...).
RawCol(name) == [key |-> name, kind |-> "raw"]
FlagCol(key, check) == [key |-> key, kind |-> check]
QcCol(key) == [key |-> key, kind |-> "qc_flag"]
OriginCol == [key |-> "", kind |-> "origin"]
OverallCol == [key |-> "", kind |-> "overall_dq_check"]
MaintenanceCol == [key |-> "", kind |-> "maintenance_flag"]

\* raw headers of the model whose text ends in "_flag"
RawFlagHeaders == {"valve_flag"}

\* col.endswith("_flag")
EndsWithFlag(col) ==
    \/ col.kind \in CheckKinds \cup {"qc_flag", "maintenance_flag"}
    \/ col.kind = "raw" /\ col.key \in RawFlagHeaders

\* a timestamp text that parses to time t
Ts(t) == [k |-> "ts", s |-> "", m |-> t, d |-> 0]

parse_timestamp(value) ==
    IF is_missing(value) THEN None
    ELSE IF value.k = "ts" THEN Some(value.m) ELSE None

\* re.sub(r"[^a-z0-9]", "", name.lower()) on the header texts of the model
normalize_column(name) ==
    CASE name \in {"TimeStamp", "timestamp"} -> "timestamp"
      [] name \in {"Temp (C)", "Temp C", "temp_c"} -> "tempc"
      [] name \in {"pH", "PH"} -> "ph"
      [] name \in {"SpCond uS/cm", "SpCond (uS/cm)"} -> "spconduscm"
      [] name = "valve_flag" -> "valveflag"
      [] name = "Other" -> "other"
      [] OTHER -> name

\* the dict comprehension keeps, for each normalized name, the last header
normalized_map(actual_columns) ==
    [n \in {normalize_column(actual_columns[i]) : i \in 1..Len(actual_columns)} |->
        LET at == {i \in 1..Len(actual_columns) : normalize_column(actual_columns[i]) = n}
        IN  actual_columns[CHOOSE i \in at : \A j \in at : j <= i]]

match_raw_column(actual_columns, candidates) ==
    LET map == normalized_map(actual_columns)
        hits == {i \in 1..Len(candidates) : normalize_column(candidates[i]) \in DOMAIN map}
    IN  IF hits = {} THEN None
        ELSE Some(map[normalize_column(candidates[CHOOSE i \in hits : \A j \in hits : i <= j])])

DropTargets == {"spconduscm", "bgapcugl", "chlorophyllugl", "fdomqsu"}

\* headers left by _drop_unwanted_columns for origin Observator
drop_unwanted_columns(headers) ==
    LET map == normalized_map(headers)
        to_drop == {map[n] : n \in DOMAIN map \cap DropTargets}
    IN  SelectSeq(headers, LAMBDA h : h \notin to_drop)

\* param.key -> raw header, for the parameters that resolve
map_columns(headers, params) ==
    LET found == {i \in 1..Len(params) :
                     match_raw_column(headers, params[i].raw_columns) # None}
    IN  [key \in {params[i].key : i \in found} |->
            LET i == CHOOSE j \in found : params[j].key = key
            IN  Val(match_raw_column(headers, params[i].raw_columns))]

timestamp_column(params, mapping) ==
    LET with == {i \in 1..Len(params) :
                    params[i].rules.timestamp_format # None /\ params[i].key \in DOMAIN mapping}
    IN  IF with = {} THEN None
        ELSE Some(mapping[params[CHOOSE i \in with : \A j \in with : i <= j].key])

\* a _metadata_row_index that never designates a row
metadata_row_index_never(rows, timestamp_col) == None

\* _metadata_row_index on a table with at least one row
metadata_row_index(rows, timestamp_col) ==
    IF timestamp_col = None THEN None
    ELSE IF parse_timestamp(rows[1][Val(timestamp_col)]) = None THEN Some(0) ELSE None

\* a flag_maintenance that leaves the end of each period out
in_period_open(ts, periods) ==
    \E i \in 1..Len(periods) : periods[i].start <= ts /\ ts < periods[i].end

in_period(ts, periods) ==
    \E i \in 1..Len(periods) : periods[i].start <= ts /\ ts <= periods[i].end

\* timestamps: a sequence of optional cells (None where there is no column)
flag_maintenance(timestamps, periods, meta) ==
    [i \in 1..Len(timestamps) |->
        IF meta # None /\ i - 1 = Val(meta) THEN ""
        ELSE LET ts == IF timestamps[i] = None THEN None
                       ELSE parse_timestamp(Val(timestamps[i]))
             IN  IF ts = None \/ periods = <<>> THEN PASS
                 ELSE IF in_period(Val(ts), periods) THEN FAIL ELSE PASS]

\* percentage with two decimals, f"{(count / total) * 100:.2f}"
percent_text(count, total) == Num((count * 20000 + total) \div (2 * total), 2)

\* an overall check that leaves the maintenance flag out
flags_for_overall_without_maintenance(new_columns) ==
    {col \in DOMAIN new_columns : col \notin {OriginCol, OverallCol, MaintenanceCol}}

\* the columns whose FAIL makes overall_dq_check FAIL
flags_for_overall(new_columns) ==
    {col \in DOMAIN new_columns : col \notin {OriginCol, OverallCol}}

\* a cleaned table keeping every row that is not FAIL
build_cleaned_df_not_fail(flagged_df) ==
    IF OverallCol \notin Range(flagged_df.columns) THEN flagged_df
    ELSE [columns |-> SelectSeq(flagged_df.columns, LAMBDA c : ~EndsWithFlag(c)),
          rows |-> LET kept == SelectSeq(flagged_df.rows,
                                         LAMBDA r : r[OverallCol] # Txt(FAIL))
                   IN  [i \in 1..Len(kept) |->
                           [c \in {x \in Range(flagged_df.columns) : ~EndsWithFlag(x)} |->
                               kept[i][c]]]]

build_cleaned_df(flagged_df) ==
    IF OverallCol \notin Range(flagged_df.columns) THEN flagged_df
    ELSE [columns |-> SelectSeq(flagged_df.columns, LAMBDA c : ~EndsWithFlag(c)),
          rows |-> LET kept == SelectSeq(flagged_df.rows,
                                         LAMBDA r : r[OverallCol] = Txt(PASS))
                   IN  [i \in 1..Len(kept) |->
                           [c \in {x \in Range(flagged_df.columns) : ~EndsWithFlag(x)} |->
                               kept[i][c]]]]

RECURSIVE append_order_from(_, _, _, _)
append_order_from(params, i, mapping, checks) ==
    IF i > Len(params) THEN <<>>
    ELSE LET rest == append_order_from(params, i + 1, mapping, checks)
             chk == applicable_checks(params[i].rules, checks)
         IN  IF params[i].key \notin DOMAIN mapping THEN rest
             ELSE [j \in 1..Len(chk) |-> FlagCol(params[i].key, chk[j])]
                  \o <<QcCol(params[i].key)>> \o rest

ORIGIN_OBSERVATOR == "Observator"

\* the series of one column, and the flags evaluate_parameter gives each
\* resolved parameter
evaluate_all(f, params, checks, column_mapping, meta) ==
    [key \in DOMAIN column_mapping |->
        evaluate_parameter([i \in 1..Len(f.rows) |-> f.rows[i][column_mapping[key]]],
                           params[CHOOSE i \in 1..Len(params) : params[i].key = key].rules,
                           checks, meta)]

timestamp_series(f, timestamp_col) ==
    [i \in 1..Len(f.rows) |-> IF timestamp_col = None THEN None
                              ELSE Some(f.rows[i][Val(timestamp_col)])]

\* the dict new_columns before overall_dq_check is added; the column of a
\* check that does not apply to the parameter is absent, written <<>>
new_columns_of(n, meta, evaluated, maintenance_flags) ==
    [col \in {OriginCol, MaintenanceCol}
             \cup {FlagCol(key, c) : key \in DOMAIN evaluated, c \in CheckKinds}
             \cup {QcCol(key) : key \in DOMAIN evaluated} |->
        CASE col = OriginCol ->
                [i \in 1..n |-> IF meta # None /\ i - 1 = Val(meta)
                                THEN "" ELSE ORIGIN_OBSERVATOR]
          [] col = MaintenanceCol -> maintenance_flags
          [] col.kind = "qc_flag" -> evaluated[col.key].qc_flags
          [] col.kind \in DOMAIN evaluated[col.key].flag_columns ->
                evaluated[col.key].flag_columns[col.kind]
          [] OTHER -> <<>>]

overall_of(n, meta, new_columns) ==
    [i \in 1..n |->
        IF meta # None /\ i - 1 = Val(meta) THEN ""
        ELSE IF \E col \in flags_for_overall(new_columns) :
                   new_columns[col] # <<>> /\ new_columns[col][i] = FAIL
             THEN FAIL ELSE PASS]

\* the frame after the new columns are appended in append_order
with_new_columns(f, headers, append_order, new_columns, overall) ==
    LET columns == [j \in 1..Len(headers) |-> RawCol(headers[j])] \o append_order
    IN  [columns |-> columns,
         rows |-> [i \in 1..Len(f.rows) |->
                     [col \in Range(columns) |->
                         IF col.kind = "raw" THEN f.rows[i][col.key]
                         ELSE IF col = OverallCol THEN Txt(overall[i])
                         ELSE IF col \in DOMAIN new_columns /\ new_columns[col] # <<>>
                              THEN Txt(new_columns[col][i])
                              ELSE Txt("")]]]

percent_row(df, flag) ==
    [col \in Range(df.columns) |->
        LET total == Cardinality({i \in 1..Len(df.rows) :
                                     df.rows[i][col] \in {Txt(PASS), Txt(FAIL)}})
            count == Cardinality({i \in 1..Len(df.rows) : df.rows[i][col] = Txt(flag)})
        IN  IF total = 0 THEN Txt("") ELSE percent_text(count, total)]

with_percent_rows(df) ==
    [columns |-> df.columns,
     rows |-> <<percent_row(df, PASS), percent_row(df, FAIL)>> \o df.rows]

written(meta, flagged) ==
    [result |-> "written", metadata_index |-> meta,
     flagged |-> Some(flagged), cleaned |-> Some(build_cleaned_df(flagged))]

no_output(what) ==
    [result |-> what, metadata_index |-> None, flagged |-> None, cleaned |-> None]

flag_file(f, headers, params, checks, periods, column_mapping, timestamp_col, meta, new_columns) ==
    written(meta,
            with_percent_rows(
                with_new_columns(f, headers,
                                 <<OriginCol, OverallCol, MaintenanceCol>>
                                     \o append_order_from(params, 1, column_mapping, checks),
                                 new_columns,
                                 overall_of(Len(f.rows), meta, new_columns))))

check_file(f, headers, params, checks, periods, column_mapping, timestamp_col, meta) ==
    flag_file(f, headers, params, checks, periods, column_mapping, timestamp_col, meta,
              new_columns_of(Len(f.rows), meta,
                             evaluate_all(f, params, checks, column_mapping, meta),
                             flag_maintenance(timestamp_series(f, timestamp_col),
                                              periods, meta)))

\* a process_file that goes on when no parameter resolved to a column
map_file_without_skip(f, headers, params, checks, periods, column_mapping, timestamp_col) ==
    IF timestamp_col # None /\ f.rows = <<>> THEN no_output("raised")
    ELSE check_file(f, headers, params, checks, periods, column_mapping, timestamp_col,
                    IF f.rows = <<>> THEN None
                    ELSE metadata_row_index(f.rows, timestamp_col))

map_file(f, headers, params, checks, periods, column_mapping, timestamp_col) ==
    IF DOMAIN column_mapping = {} THEN no_output("skipped")
    ELSE IF timestamp_col # None /\ f.rows = <<>> THEN no_output("raised")
    ELSE check_file(f, headers, params, checks, periods, column_mapping, timestamp_col,
                    IF f.rows = <<>> THEN None
                    ELSE metadata_row_index(f.rows, timestamp_col))

resolve_file(f, headers, params, checks, periods, column_mapping) ==
    map_file(f, headers, params, checks, periods, column_mapping,
             timestamp_column(params, column_mapping))

load_file(f, headers, params, checks, periods) ==
    resolve_file(f, headers, params, checks, periods, map_columns(headers, params))

\* QCEngine.process_file on a file whose origin is Observator: what it
\* returns ("none", "skipped", "raised" or "written") and the tables it writes
process_file(f, params, checks, periods) ==
    IF params = <<>> THEN no_output("none")
    ELSE load_file(f, drop_unwanted_columns(f.headers), params, checks, periods)

-----------------------------------------------------------------------------
(* SpecEngine: one call of QCEngine.process_file *)

MaxFileRows == 2

EngineHeaders ==
    {<<"TimeStamp", "Temp (C)", "valve_flag">>,
     <<"Temp (C)", "pH">>,
     <<"TimeStamp", "temp_c", "Temp (C)">>,
     <<"timestamp", "SpCond uS/cm">>,
     <<"Other">>}

\* the cell texts each column draws from: a unit text and two timestamps
\* (and the empty text); empty, "2", "5"; empty, "2"; one fixed text
EngineCells(header) ==
    CASE header = "TimeStamp" -> {Txt("dd/mm/yyyy"), Ts(0), Ts(1)}
      [] header = "timestamp" -> {Txt(""), Txt("dd/mm/yyyy"), Ts(0), Ts(1)}
      [] header = "Temp (C)" -> {Txt(""), Num(2, 0), Num(5, 0)}
      [] header = "pH" -> {Txt(""), Num(2, 0)}
      [] OTHER -> {Num(1, 0)}

EngineRows(headers) ==
    {r \in [Range(headers) -> UNION {EngineCells(h) : h \in Range(headers)}] :
        \A h \in Range(headers) : r[h] \in EngineCells(h)}

EngineFiles ==
    {[headers |-> h, rows |-> rs] : h \in EngineHeaders, rs \in {<<>>}} \cup
    UNION {{[headers |-> h, rows |-> rs] : rs \in SeqsUpTo(EngineRows(h), MaxFileRows)} :
              h \in EngineHeaders}

EvalIdle ==
    /\ series = <<>> /\ idx = 0
    /\ rules = [numeric_required |-> FALSE, allow_nulls |-> TRUE, decimal_max |-> None,
                min_value |-> None, max_value |-> None, nonnegative_required |-> FALSE,
                max_delta_per_step |-> None, streak_threshold |-> None,
                allowed_values |-> None, timestamp_format |-> None]
    /\ last_value = None /\ streak_count = 0 /\ previous_numeric = None
    /\ flag_columns = <<>> /\ qc_flags = <<>>

NoRules == [numeric_required |-> FALSE, allow_nulls |-> TRUE, decimal_max |-> None,
            min_value |-> None, max_value |-> None, nonnegative_required |-> FALSE,
            max_delta_per_step |-> None, streak_threshold |-> None,
            allowed_values |-> None, timestamp_format |-> None]

TimeParam == [key |-> "TimeStamp", raw_columns |-> <<"TimeStamp", "Time">>,
              rules |-> [NoRules EXCEPT !.allow_nulls = FALSE,
                                        !.timestamp_format = Some("%d/%m/%Y %H:%M")]]

TempParam(r) == [key |-> "Temp_C", raw_columns |-> <<"Temp C", "Temp (C)">>, rules |-> r]

PhParam == [key |-> "pH", raw_columns |-> <<"pH">>,
            rules |-> [NoRules EXCEPT !.numeric_required = TRUE]]

TempRules ==
    {[NoRules EXCEPT !.numeric_required = TRUE, !.allow_nulls = FALSE,
                     !.min_value = Some(F(0)), !.max_value = Some(F(3))],
     [NoRules EXCEPT !.max_delta_per_step = Some(F(1)), !.streak_threshold = Some(2)]}

EngineParams == {<<>>} \cup {<<TimeParam, TempParam(r), PhParam>> : r \in TempRules}

EngineInit ==
    /\ file \in EngineFiles
    /\ params_for_origin \in EngineParams
    /\ global_checks \in {AllOn, AllOff}
    /\ maintenance_periods \in {<<>>, <<[start |-> 1, end |-> 1]>>}
    /\ global_checks = AllOff => maintenance_periods # <<>>
    /\ engine_result = ""
    /\ metadata_index = None
    /\ flagged_file = None
    /\ cleaned_file = None
    /\ EvalIdle
    /\ CombineIdle
    /\ MergeIdle
    /\ GeneralIdle
    /\ UnitIdle
    /\ RelocIdle
    /\ ServerIdle
    /\ FetchIdle
    /\ WatchIdle

ProcessFile ==
    /\ engine_result = ""
    /\ LET out == process_file(file, params_for_origin, global_checks, maintenance_periods)
       IN  /\ engine_result' = out.result
           /\ metadata_index' = out.metadata_index
           /\ flagged_file' = out.flagged
           /\ cleaned_file' = out.cleaned
    /\ UNCHANGED <<file, params_for_origin, maintenance_periods, global_checks,
                   series, rules, idx, last_value, streak_count, previous_numeric,
                   flag_columns, qc_flags, combineVars, mergeVars, generalVars, unitVars, relocVars, serverVars, fetchVars, watchVars>>

EngineNext == ProcessFile

SpecEngine == EngineInit /\ [][EngineNext]_vars

-----------------------------------------------------------------------------
(* Properties of QCEngine.process_file *)

Flagged == Val(flagged_file)
Cleaned == Val(cleaned_file)

\* the flagged row of data row i of the file (two percentage rows come first)
FlaggedRow(i) == Flagged.rows[i + 2]
IsDesignatedMetadata(i) == metadata_index # None /\ i - 1 = Val(metadata_index)

\* per-check flags, <key>_qc_flag columns and maintenance_flag
FlagColumnsOfTable ==
    {c \in Range(Flagged.columns) : c.kind \in CheckKinds \cup {"qc_flag", "maintenance_flag"}}

\* C1: in the flagged table every non-metadata data row has overall_dq_check
\* FAIL iff at least one flag of the row (per-check, <key>_qc_flag or
\* maintenance_flag) is FAIL, and PASS otherwise; overall_dq_check is empty
\* exactly on the designated metadata row.
C1_OverallIsAnyFail ==
    engine_result = "written" =>
        \A i \in 1..Len(file.rows) :
            FlaggedRow(i)[OverallCol] =
                IF IsDesignatedMetadata(i) THEN Txt("")
                ELSE IF \E c \in FlagColumnsOfTable : FlaggedRow(i)[c] = Txt(FAIL)
                     THEN Txt(FAIL) ELSE Txt(PASS)

\* a metadata row, then a row that fails on the maintenance flag alone
C1_Witness ==
    /\ engine_result = "written"
    /\ Len(file.rows) = 2
    /\ IsDesignatedMetadata(1)
    /\ FlaggedRow(2)[MaintenanceCol] = Txt(FAIL)
    /\ \A c \in FlagColumnsOfTable \ {MaintenanceCol} : FlaggedRow(2)[c] = Txt(PASS)
    /\ FlaggedRow(2)[OverallCol] = Txt(FAIL)

PassRows == {i \in 1..Len(Flagged.rows) : Flagged.rows[i][OverallCol] = Txt(PASS)}
KthOf(S, k) == CHOOSE i \in S : Cardinality({j \in S : j <= i}) = k
PositionIn(seq, e) == CHOOSE i \in 1..Len(seq) : seq[i] = e

\* C4: the cleaned table holds exactly the flagged rows whose
\* overall_dq_check is PASS, in their order (no FAIL row, no metadata row, no
\* percentage row), under the columns of the flagged table that do not end
\* in _flag, in their order, origin and overall_dq_check among them; deriving
\* the cleaned table of the cleaned table gives the same table.
C4_CleanedIsPassSubset ==
    engine_result = "written" =>
        /\ Len(Cleaned.rows) = Cardinality(PassRows)
        /\ \A k \in 1..Len(Cleaned.rows) :
              /\ DOMAIN Cleaned.rows[k] = Range(Cleaned.columns)
              /\ \A c \in Range(Cleaned.columns) :
                    Cleaned.rows[k][c] = Flagged.rows[KthOf(PassRows, k)][c]
        /\ PassRows \cap {1, 2} = {}
        /\ \A i \in 1..Len(file.rows) : IsDesignatedMetadata(i) => i + 2 \notin PassRows
        /\ Range(Cleaned.columns) = {c \in Range(Flagged.columns) : ~EndsWithFlag(c)}
        /\ \A a, b \in 1..Len(Cleaned.columns) :
              a < b => PositionIn(Flagged.columns, Cleaned.columns[a])
                          < PositionIn(Flagged.columns, Cleaned.columns[b])
        /\ {OriginCol, OverallCol} \subseteq Range(Cleaned.columns)
        /\ build_cleaned_df(Cleaned) = Cleaned

\* a file with a FAIL row, a PASS row and a raw column ending in _flag, of
\* which one row reaches the cleaned table
C4_Witness ==
    /\ engine_result = "written"
    /\ Len(file.rows) = 2
    /\ FlaggedRow(1)[OverallCol] = Txt(FAIL)
    /\ FlaggedRow(2)[OverallCol] = Txt(PASS)
    /\ RawCol("valve_flag") \in Range(Flagged.columns)
    /\ Len(Cleaned.rows) = 1

-----------------------------------------------------------------------------
(* data_combiner/combiner.py: combine_pair and align_combined_rows *)

MaxObsRows == 2
MaxColiRows == 3

\* a cell pandas read as missing (NaN / pd.NA)
NA == [k |-> "na", s |-> "", m |-> 0, d |-> 0]
notna(v) == v # NA

\* pd.to_datetime(..., dayfirst=True, errors="coerce"): NaT is None
to_datetime(v) == IF v.k = "ts" THEN Some(v.m) ELSE None

ORIGIN_OBS == "Observator"
ORIGIN_COLI == "Coliminder"

\* pH stands for the thirteen Observator measurement columns
COLUMN_ORDER == <<"TimeStamp", "Origin", "Activity - Coliminder", "pH">>
OBS_TIMESTAMP_COL == "Observator TimeStamp"
COLI_TIMESTAMP_COL == "Coliminder TimeStamp"
not_key_column(c) == c \notin {"TimeStamp", "Origin"}
MEASUREMENT_COLUMNS == SelectSeq(COLUMN_ORDER, not_key_column)
ALIGNED_COLUMN_ORDER == <<OBS_TIMESTAMP_COL, COLI_TIMESTAMP_COL>> \o MEASUREMENT_COLUMNS

has_timestamp(row) == notna(row["TimeStamp"])
has_timestamp_or_activity(row) ==
    notna(row["TimeStamp"]) \/ notna(row["Activity - Coliminder"])

observator_row(row) ==
    [c \in Range(COLUMN_ORDER) |->
        IF c = "Origin" THEN Txt(ORIGIN_OBS)
        ELSE IF c = "Activity - Coliminder" THEN NA
        ELSE row[c]]

coliminder_row(row) ==
    [c \in Range(COLUMN_ORDER) |->
        IF c = "Origin" THEN Txt(ORIGIN_COLI)
        ELSE IF c \in DOMAIN row THEN row[c]
        ELSE NA]

MapSeq(f(_), seq) == [i \in 1..Len(seq) |-> f(seq[i])]

\* the data rows of a cleaned Observator file, without those lacking a timestamp
load_observator(rows) == MapSeq(observator_row, SelectSeq(rows, has_timestamp))

\* the data rows of a cleaned ColiMinder file (Time (UTC) renamed TimeStamp,
\* Activity renamed Activity - Coliminder), without the wholly empty ones
load_coliminder(rows) ==
    MapSeq(coliminder_row, SelectSeq(rows, has_timestamp_or_activity))

\* sort_values on the parsed column: rows in ascending time, rows of equal
\* time in any order (the default sort is not stable), NaT rows last in
\* their original order
RECURSIVE sorted_from(_, _, _)
sorted_from(rows, column, left) ==
    IF left = {} THEN {<<>>}
    ELSE LET firsts == {i \in left : \A j \in left :
                           Val(to_datetime(rows[i][column])) <= Val(to_datetime(rows[j][column]))}
         IN  UNION {{<<rows[i]>> \o rest : rest \in sorted_from(rows, column, left \ {i})} :
                     i \in firsts}

is_nat(rows, column, i) == to_datetime(rows[i][column]) = None

RECURSIVE nat_rows_from(_, _, _)
nat_rows_from(rows, column, i) ==
    IF i > Len(rows) THEN <<>>
    ELSE (IF is_nat(rows, column, i) THEN <<rows[i]>> ELSE <<>>)
         \o nat_rows_from(rows, column, i + 1)

sort_by_timestamp_column(rows, column) ==
    {s \o nat_rows_from(rows, column, 1) :
        s \in sorted_from(rows, column, {i \in 1..Len(rows) : ~is_nat(rows, column, i)})}

sort_by_timestamp(rows) == sort_by_timestamp_column(rows, "TimeStamp")

\* the tables combine_pair can return
combine_pair(obs_rows, coli_rows) ==
    sort_by_timestamp(load_observator(obs_rows) \o load_coliminder(coli_rows))

is_obs(row) == row["Origin"] = Txt(ORIGIN_OBS)
is_coli(row) == row["Origin"] = Txt(ORIGIN_COLI)
timestamp_parses(row) == to_datetime(row["TimeStamp"]) # None

\* the obs and coli frames of align_combined_rows after dropna and reset_index
obs_frame(rows) == SelectSeq(SelectSeq(rows, is_obs), timestamp_parses)
coli_frame(rows) == SelectSeq(SelectSeq(rows, is_coli), timestamp_parses)

obs_ts(row) == Val(to_datetime(row["TimeStamp"]))
coli_ts(row) == Val(to_datetime(row["TimeStamp"]))

\* available = assigned_mask[~assigned_mask].index
available_ignoring_mask(mask) == 1..Len(mask)
available(mask) == {i \in 1..Len(mask) : ~mask[i]}

\* diffs.idxmin(): the first index of the smallest absolute difference
idxmin(frame, among, t) ==
    CHOOSE i \in among : \A j \in among :
        \/ Abs(obs_ts(frame[i]) - t) < Abs(obs_ts(frame[j]) - t)
        \/ Abs(obs_ts(frame[i]) - t) = Abs(obs_ts(frame[j]) - t) /\ i <= j

\* one row of the aligned table: the Observator row, overlaid with the
\* timestamp and the non-missing measurements of the row assigned to it
aligned_row(obs_row, assigned) ==
    [c \in Range(ALIGNED_COLUMN_ORDER) |->
        IF c = OBS_TIMESTAMP_COL THEN obs_row["TimeStamp"]
        ELSE IF c = COLI_TIMESTAMP_COL
             THEN (IF assigned = None THEN NA ELSE Val(assigned)["TimeStamp"])
        ELSE IF assigned # None /\ notna(Val(assigned)[c]) THEN Val(assigned)[c]
        ELSE obs_row[c]]

aligned_rows(frame, assigned) ==
    [i \in 1..Len(frame) |->
        aligned_row(frame[i], IF i \in DOMAIN assigned THEN Some(assigned[i]) ELSE None)]

\* statistics whose percentage is that of the matched rows
align_stats_matched_share(total_coli, matched) ==
    [total_coliminder_rows |-> total_coli,
     matched_coliminder_rows |-> matched,
     unmatched_coliminder_rows |-> total_coli - matched,
     unmatched_percentage |->
        IF total_coli # 0 THEN [num |-> matched * 100, den |-> total_coli]
        ELSE [num |-> 0, den |-> 1]]

\* unmatched_percentage is unmatched / total * 100, kept as a fraction
align_stats(total_coli, matched) ==
    [total_coliminder_rows |-> total_coli,
     matched_coliminder_rows |-> matched,
     unmatched_coliminder_rows |-> total_coli - matched,
     unmatched_percentage |->
        IF total_coli # 0 THEN [num |-> (total_coli - matched) * 100, den |-> total_coli]
        ELSE [num |-> 0, den |-> 1]]

-----------------------------------------------------------------------------
(* SpecCombine: one Observator/ColiMinder pair combined, then aligned *)

ObsTimes == {0, 4}
ColiTimes == {1, 2}

\* data rows of a cleaned Observator file: row i carries pH i
ObsFiles ==
    {{[i \in 1..n |-> [TimeStamp |-> ts[i], pH |-> Num(i, 0)]] :
        ts \in [1..n -> {NA, Txt("abc")} \cup {Ts(t) : t \in ObsTimes}]} :
     n \in 0..MaxObsRows}

\* data rows of a cleaned ColiMinder file: row j carries activity 10 + j
ColiFiles ==
    {{[j \in 1..n |-> ("TimeStamp" :> ts[j]) @@ ("Activity - Coliminder" :> Num(10 + j, 0))] :
        ts \in [1..n -> {Txt("abc")} \cup {Ts(t) : t \in ColiTimes}]} :
     n \in 0..MaxColiRows}

CombineInit ==
    /\ obs_file \in UNION ObsFiles
    /\ coli_file \in UNION ColiFiles
    /\ combined_rows = <<>>
    /\ obs = <<>> /\ coli = <<>> /\ coli_pos = 0
    /\ assignments = <<>> /\ assigned_mask = <<>>
    /\ aligned = <<>> /\ stats = <<>>
    /\ combine_pc = "start"
    /\ global_checks = AllOff /\ metadata_index = None
    /\ EvalIdle
    /\ EngineIdle
    /\ MergeIdle
    /\ GeneralIdle
    /\ UnitIdle
    /\ RelocIdle
    /\ ServerIdle
    /\ FetchIdle
    /\ WatchIdle

\* combine_pair(obs_path, coli_path)
CombinePair ==
    /\ combine_pc = "start"
    /\ combined_rows' \in combine_pair(obs_file, coli_file)
    /\ combine_pc' = "combined"
    /\ UNCHANGED <<obs_file, coli_file, obs, coli, coli_pos, assignments,
                   assigned_mask, aligned, stats, evalVars, engineVars, mergeVars, generalVars, unitVars, relocVars, serverVars, fetchVars, watchVars>>

\* align_combined_rows on an empty table: the early return
AlignEmpty ==
    /\ combine_pc = "combined"
    /\ combined_rows = <<>>
    /\ aligned' = <<>>
    /\ stats' = align_stats(0, 0)
    /\ combine_pc' = "done"
    /\ UNCHANGED <<obs_file, coli_file, combined_rows, obs, coli, coli_pos,
                   assignments, assigned_mask, evalVars, engineVars, mergeVars, generalVars, unitVars, relocVars, serverVars, fetchVars, watchVars>>

\* align_combined_rows up to the assignment loop
AlignStart ==
    /\ combine_pc = "combined"
    /\ combined_rows # <<>>
    /\ obs' = obs_frame(combined_rows)
    /\ coli' = coli_frame(combined_rows)
    /\ assignments' = <<>>
    /\ assigned_mask' = [i \in 1..Len(obs_frame(combined_rows)) |-> FALSE]
    /\ coli_pos' = 0
    /\ combine_pc' = "align"
    /\ UNCHANGED <<obs_file, coli_file, combined_rows, aligned, stats,
                   evalVars, engineVars, mergeVars, generalVars, unitVars, relocVars, serverVars, fetchVars, watchVars>>

\* one iteration of the loop over coli.iterrows()
AlignAssign ==
    /\ combine_pc = "align"
    /\ coli_pos < Len(coli)
    /\ available(assigned_mask) # {}
    /\ LET coli_row == coli[coli_pos + 1]
           target_idx == idxmin(obs, available(assigned_mask), coli_ts(coli_row))
       IN  /\ assignments' = (target_idx :> coli_row) @@ assignments
           /\ assigned_mask' = [assigned_mask EXCEPT ![target_idx] = TRUE]
    /\ coli_pos' = coli_pos + 1
    /\ UNCHANGED <<obs_file, coli_file, combined_rows, obs, coli, aligned, stats,
                   combine_pc, evalVars, engineVars, mergeVars, generalVars, unitVars, relocVars, serverVars, fetchVars, watchVars>>

\* the loop has ended or hit its break: statistics and the aligned table
AlignFinish ==
    /\ combine_pc = "align"
    /\ coli_pos = Len(coli) \/ available(assigned_mask) = {}
    /\ aligned' \in sort_by_timestamp_column(aligned_rows(obs, assignments), OBS_TIMESTAMP_COL)
    /\ stats' = align_stats(Len(coli), Cardinality(DOMAIN assignments))
    /\ combine_pc' = "done"
    /\ UNCHANGED <<obs_file, coli_file, combined_rows, obs, coli, coli_pos,
                   assignments, assigned_mask, evalVars, engineVars, mergeVars, generalVars, unitVars, relocVars, serverVars, fetchVars, watchVars>>

CombineNext == CombinePair \/ AlignEmpty \/ AlignStart \/ AlignAssign \/ AlignFinish

SpecCombine == CombineInit /\ [][CombineNext]_vars

-----------------------------------------------------------------------------
(* Properties of the combination mode *)

Aligning == combine_pc \in {"align", "done"}

\* the position in coli of an assigned row (rows differ by their activity)
ColiIndexOf(row) == CHOOSE c \in 1..Len(coli) : coli[c] = row
DistTo(p, c) == Abs(obs_ts(obs[p]) - coli_ts(coli[c]))
AssignedBefore(c) == {q \in DOMAIN assignments : ColiIndexOf(assignments[q]) < c}
Smaller(a, b) == IF a < b THEN a ELSE b

\* C5: in combination mode the secondary rows are taken in ascending
\* timestamp order; each one taken is given the primary row of least absolute
\* time difference among those no earlier secondary row holds; a primary row
\* once given keeps its secondary row (no two secondary rows share one, and
\* none taken loses its place); the secondary rows left when every primary
\* row is held stay unassigned.
C5_GreedyNearestUnassigned ==
    Aligning =>
        /\ \A c \in 1..(Len(coli) - 1) : coli_ts(coli[c]) <= coli_ts(coli[c + 1])
        /\ \A c \in 1..coli_pos : \E p \in DOMAIN assignments : assignments[p] = coli[c]
        /\ \A p \in DOMAIN assignments :
              /\ assignments[p] \in Range(coli)
              /\ ColiIndexOf(assignments[p]) <= coli_pos
              /\ \A q \in (1..Len(obs)) \ AssignedBefore(ColiIndexOf(assignments[p])) :
                    DistTo(p, ColiIndexOf(assignments[p])) <= DistTo(q, ColiIndexOf(assignments[p]))
        /\ \A p, q \in DOMAIN assignments : assignments[p] = assignments[q] => p = q
        /\ combine_pc = "done" =>
              /\ Cardinality(DOMAIN assignments) = Smaller(Len(obs), Len(coli))
              /\ coli_pos < Len(coli) => DOMAIN assignments = 1..Len(obs)
              /\ stats.unmatched_coliminder_rows = Len(coli) - coli_pos

\* two primary rows and three secondary rows: the second secondary row is
\* nearer to the primary row the first one holds than to the one it receives,
\* and the third finds no primary row left
C5_Witness ==
    /\ combine_pc = "done"
    /\ Len(obs) = 2 /\ Len(coli) = 3
    /\ \E p, q \in DOMAIN assignments :
          /\ assignments[p] = coli[1] /\ assignments[q] = coli[2]
          /\ DistTo(p, 2) < DistTo(q, 2)
    /\ coli[3] \notin {assignments[p] : p \in DOMAIN assignments}

-----------------------------------------------------------------------------
(* processor/coliminder_merge.py: merge_coliminder_into_file *)

MaxPrimaryRows == 2
MaxSecondaryRows == 2

COLIMINDER_COLUMNS ==
    [timestamp |-> "Timestamp (UTC)", activity |-> "Activity", sample_numb |-> "Sample Numb."]

MICROFLU_COLUMN == "microFlu_TRP"
SIGNAL_STRENGTH_COLUMN == "Signal strength"

\* pH stands for the eleven primary measurement columns
PRIMARY_ALIGNMENT_COLUMNS == <<"pH">>

new_columns ==
    <<COLIMINDER_COLUMNS.timestamp, COLIMINDER_COLUMNS.activity, COLIMINDER_COLUMNS.sample_numb>>

\* a frame is [columns, rows]; a row maps each column to its cell, and under
\* LineKey carries the number of the line of the file it was read from
LineKey == "#"

timestamp_candidates ==
    <<"TimeStamp", "Timestamp", "Time", "Time (UTC)", "Timestamp (UTC)", "Time_UTC">>

find_timestamp_column(columns) ==
    IF \A i \in 1..Len(timestamp_candidates) : timestamp_candidates[i] \notin Range(columns)
    THEN None
    ELSE Some(timestamp_candidates[
            CHOOSE i \in 1..Len(timestamp_candidates) :
                /\ timestamp_candidates[i] \in Range(columns)
                /\ \A j \in 1..(i - 1) : timestamp_candidates[j] \notin Range(columns)])

\* times are in hundredths of a second; NaT is None
parse_observator_timestamps(v) == IF v.k = "ts" THEN Some(v.m * 100) ELSE None

\* to_numeric then to_datetime(unit="s", utc=True)
parse_coliminder_uid(v) == IF v.k = "num" THEN Some(v.m * Pow10(2 - v.d)) ELSE None

\* strftime("%d-%m-%Y %H:%M:%S"): the text of the whole second
format_coliminder_timestamp(value) == Ts(value \div 100)

non_empty(v) == ~(v.k = "txt" /\ Strip(v.s) = "")

primary_alignment_mask(frame, i) ==
    \E column \in Range(PRIMARY_ALIGNMENT_COLUMNS) \cap Range(frame.columns) :
        non_empty(frame.rows[i][column])

obs_time(frame, timestamp_col, i) ==
    Val(parse_observator_timestamps(frame.rows[i][timestamp_col]))

valid_obs(frame, timestamp_col) ==
    {i \in 1..Len(frame.rows) :
        parse_observator_timestamps(frame.rows[i][timestamp_col]) # None}

\* (times.loc[among] - t).abs().idxmin()
nearest_idx(frame, timestamp_col, among, t) ==
    CHOOSE i \in among : \A j \in among :
        \/ Abs(obs_time(frame, timestamp_col, i) - t) < Abs(obs_time(frame, timestamp_col, j) - t)
        \/ /\ Abs(obs_time(frame, timestamp_col, i) - t) = Abs(obs_time(frame, timestamp_col, j) - t)
           /\ i <= j

primary_indices(frame, timestamp_col) ==
    {i \in valid_obs(frame, timestamp_col) : primary_alignment_mask(frame, i)}

source_indices(frame, timestamp_col) ==
    {i \in valid_obs(frame, timestamp_col) :
        non_empty(frame.rows[i][MICROFLU_COLUMN]) /\ ~primary_alignment_mask(frame, i)}

FirstOf(S) == CHOOSE i \in S : \A j \in S : i <= j

better_source(best, target_idx, source_idx, diff) ==
    IF target_idx \notin DOMAIN best \/ diff < best[target_idx].diff
    THEN (target_idx :> [source_idx |-> source_idx, diff |-> diff]) @@ best
    ELSE best

source_target(frame, timestamp_col, source_idx) ==
    nearest_idx(frame, timestamp_col, primary_indices(frame, timestamp_col),
                obs_time(frame, timestamp_col, source_idx))

\* the loop over source_indices that fills best_sources
RECURSIVE best_sources_from(_, _, _, _)
best_sources_from(frame, timestamp_col, left, best) ==
    IF left = {} THEN best
    ELSE best_sources_from(frame, timestamp_col, left \ {FirstOf(left)},
            better_source(best,
                source_target(frame, timestamp_col, FirstOf(left)),
                FirstOf(left),
                Abs(obs_time(frame, timestamp_col, source_target(frame, timestamp_col, FirstOf(left)))
                    - obs_time(frame, timestamp_col, FirstOf(left)))))

\* the targets whose best source is moved: those without a value of their own
moved_targets(frame, best) ==
    {target_idx \in DOMAIN best :
        /\ best[target_idx].source_idx # target_idx
        /\ ~non_empty(frame.rows[target_idx][MICROFLU_COLUMN])}

moved_sources(frame, best) ==
    {best[target_idx].source_idx : target_idx \in moved_targets(frame, best)}

\* a move that leaves the value on the donor as well
move_microflu_keeping_donor(frame, best) ==
    [frame EXCEPT !.rows =
        [i \in 1..Len(frame.rows) |->
            IF i \in moved_targets(frame, best)
            THEN [frame.rows[i] EXCEPT
                    ![MICROFLU_COLUMN] = frame.rows[best[i].source_idx][MICROFLU_COLUMN]]
            ELSE frame.rows[i]]]

move_microflu(frame, best) ==
    [frame EXCEPT !.rows =
        [i \in 1..Len(frame.rows) |->
            IF i \in moved_targets(frame, best)
            THEN [frame.rows[i] EXCEPT
                    ![MICROFLU_COLUMN] = frame.rows[best[i].source_idx][MICROFLU_COLUMN]]
            ELSE IF i \in moved_sources(frame, best)
            THEN [frame.rows[i] EXCEPT ![MICROFLU_COLUMN] = Txt("")]
            ELSE frame.rows[i]]]

\* a Signal strength value counts as other data just as any other column does
row_has_other_data_never(frame, timestamp_col, row_idx) == FALSE
row_has_other_data(frame, timestamp_col, row_idx) ==
    \E column \in Range(frame.columns) \ {timestamp_col, MICROFLU_COLUMN} :
        non_empty(frame.rows[row_idx][column])

RECURSIVE keep_rows_from(_, _, _)
keep_rows_from(rows, drop_indices, i) ==
    IF i > Len(rows) THEN <<>>
    ELSE (IF i \in drop_indices THEN <<>> ELSE <<rows[i]>>)
         \o keep_rows_from(rows, drop_indices, i + 1)

\* df.drop(index=drop_indices) and reset_index
drop_moved(frame, timestamp_col, moved) ==
    [frame EXCEPT !.rows =
        keep_rows_from(frame.rows,
            {row_idx \in moved : ~row_has_other_data(frame, timestamp_col, row_idx)}, 1)]

relocate(frame, timestamp_col, best) ==
    drop_moved(move_microflu(frame, best), timestamp_col, moved_sources(frame, best))

\* the function up to the end of its loop over best_sources: the frame and
\* moved_sources, both as on entry when it returns early
microflu_moved(frame, timestamp_col, best) ==
    IF \/ MICROFLU_COLUMN \notin Range(frame.columns)
       \/ valid_obs(frame, timestamp_col) = {}
       \/ primary_indices(frame, timestamp_col) = {}
       \/ source_indices(frame, timestamp_col) = {}
    THEN [df |-> frame, moved_sources |-> {}]
    ELSE [df |-> move_microflu(frame, best), moved_sources |-> moved_sources(frame, best)]

align_microflu_rows_to_primary_measurements(frame, timestamp_col) ==
    IF \/ MICROFLU_COLUMN \notin Range(frame.columns)
       \/ valid_obs(frame, timestamp_col) = {}
       \/ primary_indices(frame, timestamp_col) = {}
       \/ source_indices(frame, timestamp_col) = {}
    THEN frame
    ELSE relocate(frame, timestamp_col,
            best_sources_from(frame, timestamp_col, source_indices(frame, timestamp_col), <<>>))

\* df[column] = "" for each new column the file does not have
add_new_columns(csv) ==
    [columns |-> csv.columns \o SelectSeq(new_columns, LAMBDA c : c \notin Range(csv.columns)),
     rows |-> [i \in 1..Len(csv.rows) |->
                [c \in DOMAIN csv.rows[i] \cup Range(new_columns) |->
                    IF c \in DOMAIN csv.rows[i] THEN csv.rows[i][c] ELSE Txt("")]]]

\* _write_with_order: the original columns without the new ones, then the new ones
write_with_order(frame, original_columns) ==
    [columns |-> SelectSeq(original_columns, LAMBDA c : c \notin Range(new_columns))
                    \o new_columns,
     rows |-> frame.rows]

\* candidates that are all the rows with a valid timestamp
candidate_obs_all_valid(frame, timestamp_col) == valid_obs(frame, timestamp_col)

candidate_obs(frame, timestamp_col) ==
    IF primary_indices(frame, timestamp_col) # {}
    THEN primary_indices(frame, timestamp_col)
    ELSE valid_obs(frame, timestamp_col)

start_time(frame, timestamp_col) ==
    obs_time(frame, timestamp_col,
        CHOOSE i \in valid_obs(frame, timestamp_col) : \A j \in valid_obs(frame, timestamp_col) :
            obs_time(frame, timestamp_col, i) <= obs_time(frame, timestamp_col, j))

end_time(frame, timestamp_col) ==
    obs_time(frame, timestamp_col,
        CHOOSE i \in valid_obs(frame, timestamp_col) : \A j \in valid_obs(frame, timestamp_col) :
            obs_time(frame, timestamp_col, i) >= obs_time(frame, timestamp_col, j))

col_time(row) == Val(parse_coliminder_uid(row["UID"]))

\* col_df restricted to the rows with a time inside [start_time, end_time]
RECURSIVE rows_in_range(_, _, _, _)
rows_in_range(rows, lo, hi, i) ==
    IF i > Len(rows) THEN <<>>
    ELSE (IF /\ parse_coliminder_uid(rows[i]["UID"]) # None
             /\ col_time(rows[i]) >= lo
             /\ col_time(rows[i]) <= hi
          THEN <<rows[i]>> ELSE <<>>)
         \o rows_in_range(rows, lo, hi, i + 1)

\* an early return: the file is written as it stands and False is returned
leave_empty(frame, original_columns, message) ==
    [pc |-> "done", log |-> message, returned |-> Some(FALSE), df |-> frame,
     col_df |-> <<>>, written |-> Some(write_with_order(frame, original_columns))]

merge_in_range(frame, original_columns, in_range) ==
    IF in_range = <<>>
    THEN leave_empty(frame, original_columns, "No Coliminder rows within range")
    ELSE [pc |-> "loop", log |-> "", returned |-> None, df |-> frame,
          col_df |-> in_range, written |-> None]

merge_relocated(frame, timestamp_col, original_columns, path) ==
    IF valid_obs(frame, timestamp_col) = {}
    THEN leave_empty(frame, original_columns, "No valid timestamps found")
    ELSE IF path = None
    THEN leave_empty(frame, original_columns, "No Coliminder file provided")
    ELSE IF ~Val(path).readable
    THEN leave_empty(frame, original_columns, "Failed to read Coliminder CSV")
    ELSE IF ~({"UID", "mU", "activeSample"} \subseteq Range(Val(path).columns))
    THEN leave_empty(frame, original_columns, "Coliminder CSV missing required columns")
    ELSE merge_in_range(frame, original_columns,
            rows_in_range(Val(path).rows, start_time(frame, timestamp_col),
                          end_time(frame, timestamp_col), 1))

merge_with_columns(frame, original_columns, path) ==
    IF find_timestamp_column(frame.columns) = None
    THEN leave_empty(frame, original_columns, "No timestamp column found")
    ELSE merge_relocated(
            align_microflu_rows_to_primary_measurements(
                frame, Val(find_timestamp_column(frame.columns))),
            Val(find_timestamp_column(frame.columns)), original_columns, path)

\* merge_coliminder_into_file up to its loop over col_df
merge_start(csv, path) == merge_with_columns(add_new_columns(csv), csv.columns, path)

\* if target_idx in diffs and diff >= diffs[target_idx]: continue
keeps_earlier_unless_not_larger(diffs, target_idx, diff) ==
    target_idx \in DOMAIN diffs /\ diff > diffs[target_idx]
keeps_earlier(diffs, target_idx, diff) ==
    target_idx \in DOMAIN diffs /\ diff >= diffs[target_idx]

\* the three cells written into an assigned row
write_assignment(row, assigned) ==
    [row EXCEPT ![COLIMINDER_COLUMNS.timestamp] = format_coliminder_timestamp(assigned.col_time),
                ![COLIMINDER_COLUMNS.activity] = assigned.activity,
                ![COLIMINDER_COLUMNS.sample_numb] = assigned.sample]

write_assignments(frame, assigned) ==
    [frame EXCEPT !.rows =
        [i \in 1..Len(frame.rows) |->
            IF i \in DOMAIN assigned THEN write_assignment(frame.rows[i], assigned[i])
            ELSE frame.rows[i]]]

-----------------------------------------------------------------------------
(* SpecMerge: one call of merge_coliminder_into_file *)

PrimaryTimes == {0, 4}
TimestampCells == {Txt("n/a")} \cup {Ts(t) : t \in PrimaryTimes}

\* what a line of a fresh Observator file carries besides its timestamp
FreshKinds == {"measurement", "measurement+microflu", "microflu",
               "microflu+signal", "microflu+remark"}

FreshColumns == <<"TimeStamp", "pH", MICROFLU_COLUMN, SIGNAL_STRENGTH_COLUMN, "Remarks">>

\* the microFlu_TRP value of line n is n
FreshRow(line, ts, kind) ==
    (LineKey :> line) @@ ("TimeStamp" :> ts)
    @@ ("pH" :> IF kind \in {"measurement", "measurement+microflu"} THEN Num(7, 0) ELSE Txt(""))
    @@ (MICROFLU_COLUMN :> IF kind = "measurement" THEN Txt("") ELSE Num(line, 0))
    @@ (SIGNAL_STRENGTH_COLUMN :> IF kind = "microflu+signal" THEN Num(5, 0) ELSE Txt(""))
    @@ ("Remarks" :> IF kind = "microflu+remark" THEN Txt("ok") ELSE Txt(""))

FreshFiles(n) ==
    {[columns |-> FreshColumns,
      rows |-> [i \in 1..n |-> FreshRow(i, ts[i], kind[i])]] :
        ts \in [1..n -> TimestampCells], kind \in [1..n -> FreshKinds]}

\* a file without any timestamp column
BareColumns == <<"pH", MICROFLU_COLUMN>>

BareFiles(n) ==
    {[columns |-> BareColumns,
      rows |-> [i \in 1..n |->
                 (LineKey :> i) @@ ("pH" :> ph[i])
                 @@ (MICROFLU_COLUMN :> IF mf[i] THEN Num(i, 0) ELSE Txt(""))]] :
        ph \in [1..n -> {Txt(""), Num(7, 0)}], mf \in [1..n -> BOOLEAN]}

\* a file an earlier merge has written and that was put back for processing:
\* it has the three columns, filled on some lines (line n holds activity 90 + n)
MergedColumns == <<"TimeStamp", "Activity", "pH", "Timestamp (UTC)", "Sample Numb.">>

MergedRow(line, ts, filled) ==
    (LineKey :> line) @@ ("TimeStamp" :> ts) @@ ("pH" :> Num(7, 0))
    @@ ("Timestamp (UTC)" :> IF filled THEN Ts(1) ELSE Txt(""))
    @@ ("Activity" :> IF filled THEN Num(90 + line, 0) ELSE Txt(""))
    @@ ("Sample Numb." :> IF filled THEN Txt("1") ELSE Txt(""))

MergedFiles(n) ==
    {[columns |-> MergedColumns,
      rows |-> [i \in 1..n |-> MergedRow(i, ts[i], filled[i])]] :
        ts \in [1..n -> TimestampCells], filled \in [1..n -> BOOLEAN]}

ObservatorFiles ==
    UNION {FreshFiles(n) \cup BareFiles(n) \cup MergedFiles(n) : n \in 0..MaxPrimaryRows}

\* UID texts: 1.5, 2 and 9 seconds
UidCells == {Num(15, 1), Num(2, 0), Num(9, 0)}

\* a ColiMinder export: row j has mU 10 + j
ColiminderExports ==
    UNION {{[readable |-> TRUE, columns |-> <<"UID", "mU", "activeSample">>,
             rows |-> [j \in 1..n |->
                        [UID |-> uid[j], mU |-> Num(10 + j, 0), activeSample |-> Txt("1")]]] :
              uid \in [1..n -> UidCells]} : n \in 0..MaxSecondaryRows}

ColiminderPaths ==
    {None,
     Some([readable |-> FALSE, columns |-> <<>>, rows |-> <<>>]),
     Some([readable |-> TRUE, columns |-> <<"UID", "mU">>, rows |-> <<>>])}
    \cup {Some(export) : export \in ColiminderExports}

MergeInit ==
    /\ observator_file \in ObservatorFiles
    /\ coliminder_path \in ColiminderPaths
    /\ merge_df = <<>> /\ col_df = <<>> /\ col_pos = 0
    /\ merge_assignments = <<>> /\ merge_diffs = <<>>
    /\ merge_log = "" /\ merge_returned = None /\ merge_written = None
    /\ merge_pc = "start"
    /\ global_checks = AllOff /\ metadata_index = None
    /\ EvalIdle
    /\ EngineIdle
    /\ CombineIdle
    /\ GeneralIdle
    /\ UnitIdle
    /\ RelocIdle
    /\ ServerIdle
    /\ FetchIdle
    /\ WatchIdle

\* from the entry to the first early return, or to the loop over col_df
MergeStart ==
    /\ merge_pc = "start"
    /\ merge_df' = merge_start(observator_file, coliminder_path).df
    /\ col_df' = merge_start(observator_file, coliminder_path).col_df
    /\ merge_log' = merge_start(observator_file, coliminder_path).log
    /\ merge_returned' = merge_start(observator_file, coliminder_path).returned
    /\ merge_written' = merge_start(observator_file, coliminder_path).written
    /\ merge_pc' = merge_start(observator_file, coliminder_path).pc
    /\ UNCHANGED <<observator_file, coliminder_path, col_pos, merge_assignments,
                   merge_diffs, evalVars, engineVars, combineVars, generalVars, unitVars, relocVars, serverVars, fetchVars, watchVars>>

merge_timestamp_col == Val(find_timestamp_column(merge_df.columns))

merge_target_idx ==
    nearest_idx(merge_df, merge_timestamp_col,
                candidate_obs(merge_df, merge_timestamp_col), col_time(col_df[col_pos + 1]))

merge_diff ==
    Abs(obs_time(merge_df, merge_timestamp_col, merge_target_idx) - col_time(col_df[col_pos + 1]))

\* one iteration of the loop over col_df.iterrows()
MergeAssign ==
    /\ merge_pc = "loop"
    /\ col_pos < Len(col_df)
    /\ IF keeps_earlier(merge_diffs, merge_target_idx, merge_diff)
       THEN UNCHANGED <<merge_diffs, merge_assignments>>
       ELSE /\ merge_diffs' = (merge_target_idx :> merge_diff) @@ merge_diffs
            /\ merge_assignments' =
                  (merge_target_idx :>
                      [col_time |-> col_time(col_df[col_pos + 1]),
                       activity |-> col_df[col_pos + 1]["mU"],
                       sample |-> col_df[col_pos + 1]["activeSample"]])
                  @@ merge_assignments
    /\ col_pos' = col_pos + 1
    /\ UNCHANGED <<observator_file, coliminder_path, merge_df, col_df, merge_log,
                   merge_returned, merge_written, merge_pc,
                   evalVars, engineVars, combineVars, generalVars, unitVars, relocVars, serverVars, fetchVars, watchVars>>

\* after the loop: the assignments are written into df and the file is saved
MergeWrite ==
    /\ merge_pc = "loop"
    /\ col_pos = Len(col_df)
    /\ merge_df' = write_assignments(merge_df, merge_assignments)
    /\ merge_written' = Some(write_with_order(write_assignments(merge_df, merge_assignments),
                                              observator_file.columns))
    /\ merge_returned' = Some(DOMAIN merge_assignments # {})
    /\ merge_pc' = "done"
    /\ UNCHANGED <<observator_file, coliminder_path, col_df, col_pos, merge_assignments,
                   merge_diffs, merge_log, evalVars, engineVars, combineVars, generalVars, unitVars, relocVars, serverVars, fetchVars, watchVars>>

MergeNext == MergeStart \/ MergeAssign \/ MergeWrite

SpecMerge == MergeInit /\ [][MergeNext]_vars

-----------------------------------------------------------------------------
(* Properties of the injection mode *)

\* the loop over col_df is running, or has run and the file is written
MergeLooped == merge_pc = "loop" \/ (merge_pc = "done" /\ merge_log = "")

MergeCandidates == candidate_obs(merge_df, merge_timestamp_col)
MergeDist(c, p) == Abs(obs_time(merge_df, merge_timestamp_col, p) - col_time(col_df[c]))

\* secondary row c targets primary row p: p is a candidate nearest to c, the
\* first such row of the file when several are equally near
MergeTargets(c, p) ==
    /\ p \in MergeCandidates
    /\ \A q \in MergeCandidates :
          \/ MergeDist(c, p) < MergeDist(c, q)
          \/ MergeDist(c, p) = MergeDist(c, q) /\ p <= q

TargetedBy(p) == {c \in 1..col_pos : MergeTargets(c, p)}

SecondaryData(c) ==
    [col_time |-> col_time(col_df[c]), activity |-> col_df[c]["mU"],
     sample |-> col_df[c]["activeSample"]]

Written == Val(merge_written)

\* C6: in injection mode a primary row holds an assignment exactly when
\* some secondary row taken so far targeted it, and then it holds the row of
\* least distance among those that targeted it, the earliest of them when
\* several have that least distance; the written file carries that row's
\* formatted time, activity and sample number.
C6_BestOfKeepsEarlierOnTie ==
    MergeLooped =>
        /\ \A p \in 1..Len(merge_df.rows) :
              IF TargetedBy(p) = {} THEN p \notin DOMAIN merge_assignments
              ELSE /\ p \in DOMAIN merge_assignments
                   /\ \E w \in TargetedBy(p) :
                         /\ \A c \in TargetedBy(p) :
                               \/ MergeDist(w, p) < MergeDist(c, p)
                               \/ MergeDist(w, p) = MergeDist(c, p) /\ w <= c
                         /\ merge_assignments[p] = SecondaryData(w)
                         /\ merge_diffs[p] = MergeDist(w, p)
        /\ \A c \in 1..col_pos : \E p \in MergeCandidates : MergeTargets(c, p)
        /\ merge_pc = "done" =>
              \A p \in DOMAIN merge_assignments :
                  /\ Written.rows[p][COLIMINDER_COLUMNS.timestamp]
                        = Ts(merge_assignments[p].col_time \div 100)
                  /\ Written.rows[p][COLIMINDER_COLUMNS.activity] = merge_assignments[p].activity
                  /\ Written.rows[p][COLIMINDER_COLUMNS.sample_numb] = merge_assignments[p].sample

\* two secondary rows target the same primary row, the later one nearer: the
\* file carries the later one
C6_Witness ==
    /\ merge_pc = "done" /\ merge_log = ""
    /\ Len(col_df) >= 2
    /\ \E p \in DOMAIN merge_assignments :
          /\ MergeTargets(1, p) /\ MergeTargets(2, p)
          /\ MergeDist(2, p) < MergeDist(1, p)
          /\ Written.rows[p][COLIMINDER_COLUMNS.activity] = col_df[2]["mU"]

NoSecondaryMessages ==
    {"No Coliminder file provided", "Failed to read Coliminder CSV",
     "Coliminder CSV missing required columns", "No Coliminder rows within range"}

\* C10: a call without a secondary file, or with one that cannot be read,
\* lacks UID/mU/activeSample or has no row inside the primary time range,
\* returns False and writes the file with the three injected columns last and
\* empty on every row.
C10_NoSecondaryLeavesColumnsEmpty ==
    (merge_pc = "done" /\ merge_log \in NoSecondaryMessages) =>
        /\ merge_returned = Some(FALSE)
        /\ merge_written # None
        /\ SubSeq(Written.columns, Len(Written.columns) - 2, Len(Written.columns)) = new_columns
        /\ \A i \in 1..Len(Written.rows) : \A c \in Range(new_columns) :
              Written.rows[i][c] = Txt("")

-----------------------------------------------------------------------------
(* SpecFusion: one fusion pass of either mode *)

FusionInit == CombineInit \/ MergeInit

FusionNext == CombineNext \/ MergeNext

SpecFusion == FusionInit /\ [][FusionNext]_vars

CountIn(seq, P(_)) == Cardinality({k \in 1..Len(seq) : P(seq[k])})

\* the rows of the ColiMinder export handed to the merge, if it could be read
ExportRows ==
    IF coliminder_path = None THEN <<>> ELSE Val(coliminder_path).rows

AlignedCarries(row, c) ==
    /\ row[COLI_TIMESTAMP_COL] = coli[c]["TimeStamp"]
    /\ row["Activity - Coliminder"] = coli[c]["Activity - Coliminder"]

AlignedEmpty(row) ==
    row[COLI_TIMESTAMP_COL] = NA /\ row["Activity - Coliminder"] = NA

WrittenCarries(row, j) ==
    /\ row[COLIMINDER_COLUMNS.timestamp] = format_coliminder_timestamp(col_time(ExportRows[j]))
    /\ row[COLIMINDER_COLUMNS.activity] = ExportRows[j]["mU"]
    /\ row[COLIMINDER_COLUMNS.sample_numb] = ExportRows[j]["activeSample"]

WrittenEmpty(row) == \A c \in Range(new_columns) : row[c] = Txt("")

\* C7: after a fusion pass of either mode no secondary row has its data on
\* more than one primary row, every primary row carries the data of exactly
\* one secondary row or of none, and the primary rows without an assignment
\* carry empty secondary fields.
C7_PartialOneToOne ==
    /\ combine_pc = "done" =>
          /\ \A p, q \in DOMAIN assignments : assignments[p] = assignments[q] => p = q
          /\ \A c \in 1..Len(coli) :
                Cardinality({k \in 1..Len(aligned) :
                    aligned[k]["Activity - Coliminder"] = coli[c]["Activity - Coliminder"]}) <= 1
          /\ \A k \in 1..Len(aligned) :
                \/ AlignedEmpty(aligned[k])
                \/ \E c \in 1..Len(coli) : AlignedCarries(aligned[k], c)
          /\ Cardinality({k \in 1..Len(aligned) : ~AlignedEmpty(aligned[k])})
                = Cardinality(DOMAIN assignments)
    /\ merge_pc = "done" =>
          /\ \A j \in 1..Len(ExportRows) :
                Cardinality({k \in 1..Len(Written.rows) :
                    Written.rows[k][COLIMINDER_COLUMNS.activity] = ExportRows[j]["mU"]}) <= 1
          /\ \A k \in 1..Len(Written.rows) :
                IF k \in DOMAIN merge_assignments
                THEN \E j \in 1..Len(ExportRows) : WrittenCarries(Written.rows[k], j)
                ELSE WrittenEmpty(Written.rows[k])

AlignedRowsOf(i) == {k \in 1..Len(aligned) : aligned[k]["pH"] = Num(i, 0)}
WrittenRowsOf(i) == {k \in 1..Len(Written.rows) : Written.rows[k][LineKey] = i}

\* C8 as stated: every primary input row appears exactly once in the
\* aligned table, and every input row exactly once in the rewritten file.
C8_EveryPrimaryRowExactlyOnce ==
    /\ combine_pc = "done" =>
          \A i \in 1..Len(obs_file) : Cardinality(AlignedRowsOf(i)) = 1
    /\ merge_pc = "done" =>
          \A i \in 1..Len(observator_file.rows) : Cardinality(WrittenRowsOf(i)) = 1

InputRow(i) == add_new_columns(observator_file).rows[i]
InputTimestampCol == Val(find_timestamp_column(add_new_columns(observator_file).columns))

\* line i of the input held only a timestamp and a stray microFlu_TRP value,
\* and the written file holds that value on a primary measurement row whose
\* own line had none
IsDroppedDonor(i) ==
    /\ MICROFLU_COLUMN \in Range(observator_file.columns)
    /\ non_empty(InputRow(i)[MICROFLU_COLUMN])
    /\ parse_observator_timestamps(InputRow(i)[InputTimestampCol]) # None
    /\ \A c \in Range(add_new_columns(observator_file).columns)
                \ {InputTimestampCol, MICROFLU_COLUMN} : ~non_empty(InputRow(i)[c])
    /\ \E k \in 1..Len(Written.rows) :
          /\ Written.rows[k][MICROFLU_COLUMN] = InputRow(i)[MICROFLU_COLUMN]
          /\ non_empty(Written.rows[k]["pH"])
          /\ ~non_empty(InputRow(Written.rows[k][LineKey])[MICROFLU_COLUMN])

\* C8 amended: no primary row is duplicated; the aligned table has exactly
\* one row per Observator input row whose timestamp parses and none for the
\* others; the rewritten file has exactly one row per input line, in the order
\* of the input, except the stray microFlu_TRP donor lines that relocation
\* emptied and dropped.
C8_PrimaryRowsAtMostOnce ==
    /\ combine_pc = "done" =>
          /\ \A i \in 1..Len(obs_file) :
                Cardinality(AlignedRowsOf(i))
                    = IF to_datetime(obs_file[i]["TimeStamp"]) # None THEN 1 ELSE 0
          /\ Len(aligned) = Cardinality({i \in 1..Len(obs_file) :
                                to_datetime(obs_file[i]["TimeStamp"]) # None})
    /\ merge_pc = "done" =>
          /\ \A i \in 1..Len(observator_file.rows) :
                /\ Cardinality(WrittenRowsOf(i)) <= 1
                /\ WrittenRowsOf(i) = {} => IsDroppedDonor(i)
          /\ \A k \in 1..Len(Written.rows) :
                Written.rows[k][LineKey] \in 1..Len(observator_file.rows)
          /\ \A k \in 1..(Len(Written.rows) - 1) :
                Written.rows[k][LineKey] < Written.rows[k + 1][LineKey]

\* a file of two lines, a primary measurement and a stray microFlu_TRP value,
\* is rewritten with the one line that now holds both
C8_Witness ==
    /\ merge_pc = "done"
    /\ Len(observator_file.rows) = 2
    /\ Len(Written.rows) = 1
    /\ \E i \in 1..2 : WrittenRowsOf(i) = {} /\ IsDroppedDonor(i)

-----------------------------------------------------------------------------
(* data_combiner/combiner.py: update_general_file, update_aligned_general_file *)

MaxBatchRows == 2

\* a cell written by to_csv and read back by read_csv under a unit row: the
\* column holds texts, so a number comes back as its numeral, and an empty
\* field as missing
csv_cell(v) ==
    IF v.k = "num" THEN [v EXCEPT !.k = "numeral"]
    ELSE IF v = Txt("") THEN NA
    ELSE v

csv_row(row) == [c \in DOMAIN row |-> csv_cell(row[c])]

\* the unit rows as they stand in the files
UNIT_ROW ==
    csv_row(("TimeStamp" :> Txt("dd-mm-yyyy hh:mm:ss")) @@ ("Origin" :> Txt(""))
            @@ ("Activity - Coliminder" :> Txt("mMFU/100ml")) @@ ("pH" :> Txt("pH")))

ALIGNED_UNIT_ROW ==
    csv_row((OBS_TIMESTAMP_COL :> Txt("dd-mm-yyyy hh:mm:ss"))
            @@ (COLI_TIMESTAMP_COL :> Txt("dd-mm-yyyy hh:mm:ss"))
            @@ ("Activity - Coliminder" :> Txt("mMFU/100ml")) @@ ("pH" :> Txt("pH")))

\* existing.iloc[1:] of the file read, nothing when the file does not exist
existing_data_two_off(path) ==
    IF path = None THEN <<>>
    ELSE IF Len(Val(path)) > 1 THEN Tail(Tail(Val(path))) ELSE <<>>
existing_data(path) ==
    IF path = None THEN <<>>
    ELSE IF Len(Val(path)) # 0 THEN Tail(Val(path)) ELSE <<>>

concat_rows(existing, new_rows) ==
    IF existing = <<>> THEN new_rows ELSE existing \o new_rows

same_key(a, b, subset) == \A c \in subset : a[c] = b[c]

\* drop_duplicates(subset=..., keep="first")
drop_duplicates_keep_last(rows, subset) ==
    keep_rows_from(rows,
        {i \in 1..Len(rows) : \E j \in (i + 1)..Len(rows) : same_key(rows[j], rows[i], subset)}, 1)
drop_duplicates(rows, subset) ==
    keep_rows_from(rows,
        {i \in 1..Len(rows) : \E j \in 1..(i - 1) : same_key(rows[j], rows[i], subset)}, 1)

\* the files the rewrite can leave: unit row, then the deduplicated rows sorted
rewritten(existing, new_rows, subset, column, unit_row) ==
    {<<unit_row>> \o MapSeq(csv_row, sorted) :
        sorted \in sort_by_timestamp_column(
                      drop_duplicates(concat_rows(existing, new_rows), subset), column)}

GENERAL_KEY == {"TimeStamp", "Origin"}
ALIGNED_KEY == {OBS_TIMESTAMP_COL}

update_general_file(path, new_rows) ==
    rewritten(existing_data(path), new_rows, GENERAL_KEY, "TimeStamp", UNIT_ROW)

update_aligned_general_file(path, new_rows) ==
    rewritten(existing_data(path), new_rows, ALIGNED_KEY, OBS_TIMESTAMP_COL, ALIGNED_UNIT_ROW)

-----------------------------------------------------------------------------
(* SpecGeneral: calls of one of the two update functions by a single writer;
   writer_target names the file the writer keeps updating *)

\* rows of a combined table: five keys, each with the value 1 or 2 in its
\* measurement column
GeneralRows ==
    {observator_row([TimeStamp |-> ts, pH |-> Num(v, 0)]) :
        ts \in {Ts(0), Ts(4), Txt("abc")}, v \in {1, 2}}
    \cup {coliminder_row(("TimeStamp" :> ts) @@ ("Activity - Coliminder" :> Num(v, 0))) :
        ts \in {Ts(0), NA}, v \in {1, 2}}

\* rows of an aligned table: two keys
AlignedRows ==
    {(OBS_TIMESTAMP_COL :> ts) @@ (COLI_TIMESTAMP_COL :> NA)
     @@ ("Activity - Coliminder" :> NA) @@ ("pH" :> Num(v, 0)) :
        ts \in {Ts(0), Ts(4)}, v \in {1, 2}}

\* the tables a call can be given: sorted by timestamp, as combine_pair and
\* align_combined_rows return them
GeneralBatches ==
    UNION {sort_by_timestamp(raw) : raw \in SeqsUpTo(GeneralRows, MaxBatchRows)}

AlignedBatches ==
    UNION {sort_by_timestamp_column(raw, OBS_TIMESTAMP_COL) :
              raw \in SeqsUpTo(AlignedRows, MaxBatchRows)}

\* the first row submitted under each key, as the file holds it
history_after(history, new_rows, subset) ==
    history \cup
    {csv_row(new_rows[i]) : i \in {i \in 1..Len(new_rows) :
        /\ \A h \in history : ~same_key(h, csv_row(new_rows[i]), subset)
        /\ \A j \in 1..(i - 1) : ~same_key(new_rows[j], new_rows[i], subset)}}

refuses(history, new_rows, subset) ==
    \E i \in 1..Len(new_rows) : \E h \in history :
        same_key(h, csv_row(new_rows[i]), subset) /\ h # csv_row(new_rows[i])

GeneralInit ==
    /\ general_file = None /\ aligned_general_file = None
    /\ general_history = {} /\ aligned_history = {}
    /\ writer_target \in {<<"general">>, <<"aligned">>}
    /\ writer_new_rows = <<>> /\ writer_existing = <<>>
    /\ writer_pc = <<>> /\ both_read = FALSE /\ refused = FALSE
    /\ global_checks = AllOff /\ metadata_index = None
    /\ EvalIdle
    /\ EngineIdle
    /\ CombineIdle
    /\ MergeIdle
    /\ UnitIdle
    /\ RelocIdle
    /\ ServerIdle
    /\ FetchIdle
    /\ WatchIdle

\* update_general_file(output_dir, new_rows)
UpdateGeneralFile ==
    /\ writer_target[1] = "general"
    /\ \E new_rows \in GeneralBatches :
          /\ general_file' \in {Some(f) : f \in update_general_file(general_file, new_rows)}
          /\ general_history' = history_after(general_history, new_rows, GENERAL_KEY)
          /\ refused' = (refused \/ refuses(general_history, new_rows, GENERAL_KEY))
    /\ UNCHANGED <<aligned_general_file, aligned_history, writer_target, writer_new_rows,
                   writer_existing, writer_pc, both_read,
                   evalVars, engineVars, combineVars, mergeVars, unitVars, relocVars, serverVars, fetchVars, watchVars>>

\* update_aligned_general_file(output_dir, new_rows)
UpdateAlignedGeneralFile ==
    /\ writer_target[1] = "aligned"
    /\ \E new_rows \in AlignedBatches :
          /\ aligned_general_file' \in
                {Some(f) : f \in update_aligned_general_file(aligned_general_file, new_rows)}
          /\ aligned_history' = history_after(aligned_history, new_rows, ALIGNED_KEY)
          /\ refused' = (refused \/ refuses(aligned_history, new_rows, ALIGNED_KEY))
    /\ UNCHANGED <<general_file, general_history, writer_target, writer_new_rows,
                   writer_existing, writer_pc, both_read,
                   evalVars, engineVars, combineVars, mergeVars, unitVars, relocVars, serverVars, fetchVars, watchVars>>

GeneralNext == UpdateGeneralFile \/ UpdateAlignedGeneralFile

SpecGeneral == GeneralInit /\ [][GeneralNext]_vars

DataRows_(path) == Tail(Val(path))

\* the rows stand in ascending time, those without a readable time last
Ascending(rows, column) ==
    \A i, j \in 1..Len(rows) :
        i < j =>
            \/ to_datetime(rows[j][column]) = None
            \/ /\ to_datetime(rows[i][column]) # None
               /\ Val(to_datetime(rows[i][column])) <= Val(to_datetime(rows[j][column]))

HoldsHistory(path, history, subset, column, unit_row) ==
    IF path = None THEN history = {}
    ELSE /\ Val(path)[1] = unit_row
         /\ unit_row \notin Range(DataRows_(path))
         /\ Range(DataRows_(path)) = history
         /\ \A i, j \in 1..Len(DataRows_(path)) :
               same_key(DataRows_(path)[i], DataRows_(path)[j], subset) => i = j
         /\ Ascending(DataRows_(path), column)

\* C11: after any sequence of calls by one writer each general file holds,
\* below a single unit row, exactly one data row for every key ever submitted
\* (TimeStamp and Origin, resp. Observator TimeStamp), namely the first row
\* submitted under that key, and its data rows stand in ascending timestamp
\* order (rows whose timestamp does not parse last).
C11_GeneralKeepsFirstPerKey ==
    /\ HoldsHistory(general_file, general_history, GENERAL_KEY, "TimeStamp", UNIT_ROW)
    /\ HoldsHistory(aligned_general_file, aligned_history, ALIGNED_KEY,
                    OBS_TIMESTAMP_COL, ALIGNED_UNIT_ROW)

\* the combined general file holds four keys, one of them without a readable
\* timestamp, and a later row for a stored key was refused
C11_Witness ==
    /\ refused
    /\ general_file # None /\ Len(DataRows_(general_file)) = 4
    /\ to_datetime(DataRows_(general_file)[4]["TimeStamp"]) = None

-----------------------------------------------------------------------------
(* SpecRace: two invocations of one update function on the same file, each a
   read of the file followed later by its rewrite *)

Writers == {1, 2}

\* invocation w brings rows whose measurement value is w
ValueIs(row, w) == row["pH"] = Num(w, 0) \/ row["Activity - Coliminder"] = Num(w, 0)

BatchesOf(target, w) ==
    {b \in (IF target = "general" THEN GeneralBatches ELSE AlignedBatches) :
        \A i \in 1..Len(b) : ValueIs(b[i], w)}

\* the file before the two invocations: absent, or written by one earlier call
StartFiles(target) ==
    {None} \cup
    (IF target = "general"
     THEN {Some(f) : f \in UNION {update_general_file(None, b) :
                                    b \in {b \in GeneralBatches : Len(b) = 1}}}
     ELSE {Some(f) : f \in UNION {update_aligned_general_file(None, b) :
                                    b \in {b \in AlignedBatches : Len(b) = 1}}})

RaceInit ==
    /\ \E target \in {"general", "aligned"} :
          /\ writer_target = [w \in Writers |-> target]
          /\ writer_new_rows \in [Writers -> BatchesOf(target, 1) \cup BatchesOf(target, 2)]
          /\ \A w \in Writers : writer_new_rows[w] \in BatchesOf(target, w)
          /\ IF target = "general"
             THEN general_file \in StartFiles(target) /\ aligned_general_file = None
             ELSE aligned_general_file \in StartFiles(target) /\ general_file = None
    /\ writer_existing = [w \in Writers |-> <<>>]
    /\ writer_pc = [w \in Writers |-> "start"]
    /\ both_read = FALSE /\ refused = FALSE
    /\ general_history = {} /\ aligned_history = {}
    /\ global_checks = AllOff /\ metadata_index = None
    /\ EvalIdle
    /\ EngineIdle
    /\ CombineIdle
    /\ MergeIdle
    /\ UnitIdle
    /\ RelocIdle
    /\ ServerIdle
    /\ FetchIdle
    /\ WatchIdle

RaceFile == IF writer_target[1] = "general" THEN general_file ELSE aligned_general_file

\* the first half of an invocation: existing_data is read from the file
ReadExisting(w) ==
    /\ writer_pc[w] = "start"
    /\ writer_existing' = [writer_existing EXCEPT ![w] = existing_data(RaceFile)]
    /\ writer_pc' = [writer_pc EXCEPT ![w] = "read"]
    /\ both_read' = (both_read \/ \E o \in Writers \ {w} : writer_pc[o] = "read")
    /\ UNCHANGED <<general_file, aligned_general_file, general_history, aligned_history,
                   writer_target, writer_new_rows, refused,
                   evalVars, engineVars, combineVars, mergeVars, unitVars, relocVars, serverVars, fetchVars, watchVars>>

\* the second half: concat, drop_duplicates, sort and to_csv over the file
RewriteFile(w) ==
    /\ writer_pc[w] = "read"
    /\ IF writer_target[w] = "general"
       THEN /\ general_file' \in
                 {Some(f) : f \in rewritten(writer_existing[w], writer_new_rows[w],
                                            GENERAL_KEY, "TimeStamp", UNIT_ROW)}
            /\ UNCHANGED aligned_general_file
       ELSE /\ aligned_general_file' \in
                 {Some(f) : f \in rewritten(writer_existing[w], writer_new_rows[w],
                                            ALIGNED_KEY, OBS_TIMESTAMP_COL, ALIGNED_UNIT_ROW)}
            /\ UNCHANGED general_file
    /\ writer_pc' = [writer_pc EXCEPT ![w] = "done"]
    /\ UNCHANGED <<general_history, aligned_history, writer_target, writer_new_rows,
                   writer_existing, both_read, refused,
                   evalVars, engineVars, combineVars, mergeVars, unitVars, relocVars, serverVars, fetchVars, watchVars>>

RaceNext == \E w \in Writers : ReadExisting(w) \/ RewriteFile(w)

SpecRace == RaceInit /\ [][RaceNext]_vars

RaceKey == IF writer_target[1] = "general" THEN GENERAL_KEY ELSE ALIGNED_KEY

\* the file holds a row under the key of every row invocation w brought
KeepsRowsOf(w) ==
    \A i \in 1..Len(writer_new_rows[w]) :
        \E k \in 1..Len(DataRows_(RaceFile)) :
            same_key(DataRows_(RaceFile)[k], csv_row(writer_new_rows[w][i]), RaceKey)

\* C12: when the two invocations are serialized (the second reads after the
\* first has written) the file keeps a row for every key either of them
\* brought; rows of a finished invocation are missing from the file only after
\* both invocations had read before either wrote.
C12_SerializedKeepsBoth ==
    \A w \in Writers :
        (writer_pc[w] = "done" /\ ~both_read) => KeepsRowsOf(w)

\* both invocations read, then both wrote, and the file lacks a row one of
\* them brought
C12_Witness ==
    /\ \A w \in Writers : writer_pc[w] = "done"
    /\ both_read
    /\ \E w \in Writers : ~KeepsRowsOf(w)

-----------------------------------------------------------------------------
(* SpecMaintenance: load_maintenance_periods on a diary, then flag_maintenance
   on a series of timestamps *)

MaxDiaryRows == 2
MaxStamps == 2

\* str(...).strip().lower() on the texts of the "Exclude from Analysis" column
exclude_value(text) ==
    CASE text \in {"Yes", " YES "} -> "yes"
      [] text = "No" -> "no"
      [] OTHER -> text

counts_as_period(row) ==
    exclude_value(row.exclude) = "yes" /\ parse_timestamp(row.start) # None

period_of(row) ==
    [start |-> Val(parse_timestamp(row.start)),
     end |-> IF parse_timestamp(row.end) = None THEN Val(parse_timestamp(row.start))
             ELSE Val(parse_timestamp(row.end))]

\* diary: None when the file does not exist, else its rows
load_maintenance_periods(diary) ==
    IF diary = None THEN <<>>
    ELSE LET kept == SelectSeq(Val(diary), counts_as_period)
         IN  [i \in 1..Len(kept) |-> period_of(kept[i])]

DiaryRows ==
    {[exclude |-> "Yes", start |-> Ts(1), end |-> Ts(2)],
     [exclude |-> " YES ", start |-> Ts(3), end |-> Txt("")],
     [exclude |-> "Yes", start |-> Ts(3), end |-> Txt("abc")],
     [exclude |-> "No", start |-> Ts(0), end |-> Ts(3)],
     [exclude |-> "Yes", start |-> Txt(""), end |-> Ts(3)]}

Diaries == {None} \cup {Some(d) : d \in UNION {[1..n -> DiaryRows] : n \in 0..MaxDiaryRows}}

StampCells == {Ts(0), Ts(1), Ts(2), Ts(3), Txt("abc"), Txt("")}

MaintenanceInit ==
    /\ diary_path \in Diaries
    /\ maint_timestamps \in UNION {[1..n -> StampCells] : n \in 0..MaxStamps}
    /\ metadata_index \in {None, Some(0)}
    /\ maint_periods = None /\ maint_flags = None
    /\ raw_headers = <<>> /\ raw_candidates = <<>> /\ matched_column = None
    /\ param_rules = None /\ param_checks = None
    /\ global_checks = AllOff
    /\ EvalIdle
    /\ EngineIdle
    /\ CombineIdle
    /\ MergeIdle
    /\ GeneralIdle
    /\ RelocIdle
    /\ ServerIdle
    /\ FetchIdle
    /\ WatchIdle

LoadMaintenancePeriods ==
    /\ maint_periods = None
    /\ maint_periods' = Some(load_maintenance_periods(diary_path))
    /\ UNCHANGED <<diary_path, maint_timestamps, maint_flags, raw_headers, raw_candidates,
                   matched_column, param_rules, param_checks,
                   evalVars, engineVars, combineVars, mergeVars, generalVars, relocVars, serverVars, fetchVars, watchVars>>

FlagMaintenance ==
    /\ maint_periods # None /\ maint_flags = None
    /\ maint_flags' = Some(flag_maintenance([i \in 1..Len(maint_timestamps) |->
                                                Some(maint_timestamps[i])],
                                            Val(maint_periods), metadata_index))
    /\ UNCHANGED <<diary_path, maint_timestamps, maint_periods, raw_headers, raw_candidates,
                   matched_column, param_rules, param_checks,
                   evalVars, engineVars, combineVars, mergeVars, generalVars, relocVars, serverVars, fetchVars, watchVars>>

MaintenanceNext == LoadMaintenancePeriods \/ FlagMaintenance

SpecMaintenance == MaintenanceInit /\ [][MaintenanceNext]_vars

\* the diary rows that stand for a period: excluded from analysis, with a
\* start that parses
DiaryPeriodRows ==
    IF diary_path = None THEN {}
    ELSE {i \in 1..Len(Val(diary_path)) :
            /\ Val(diary_path)[i].exclude \in {"Yes", " YES "}
            /\ Val(diary_path)[i].start.k = "ts"}

PeriodStart(i) == Val(diary_path)[i].start.m

PeriodEnd(i) ==
    IF Val(diary_path)[i].end.k = "ts" THEN Val(diary_path)[i].end.m ELSE PeriodStart(i)

ExpectedMaintenanceFlag(i) ==
    IF metadata_index # None /\ Val(metadata_index) = i - 1 THEN ""
    ELSE IF maint_timestamps[i].k # "ts" \/ DiaryPeriodRows = {} THEN PASS
    ELSE IF \E p \in DiaryPeriodRows :
                PeriodStart(p) <= maint_timestamps[i].m /\ maint_timestamps[i].m <= PeriodEnd(p)
         THEN FAIL ELSE PASS

\* C13: flag_maintenance returns one flag per row: "" on the metadata row,
\* PASS where the timestamp does not parse or there is no period, otherwise
\* FAIL exactly when start <= t <= end (both ends included) for some period; a
\* diary row without an end time is the period [start, start], and an absent
\* diary gives no periods.
C13_MaintenanceFlags ==
    /\ (maint_periods # None /\ diary_path = None) => Val(maint_periods) = <<>>
    /\ maint_flags # None =>
          /\ Len(Val(maint_flags)) = Len(maint_timestamps)
          /\ \A i \in 1..Len(maint_timestamps) :
                Val(maint_flags)[i] = ExpectedMaintenanceFlag(i)

\* a row at the very end of the period [1, 2] and a row on the zero-width
\* period [3, 3] of a diary row without end time are both flagged FAIL
C13_Witness ==
    /\ maint_flags # None
    /\ metadata_index = None
    /\ diary_path = Some(<<[exclude |-> "Yes", start |-> Ts(1), end |-> Ts(2)],
                           [exclude |-> " YES ", start |-> Ts(3), end |-> Txt("")]>>)
    /\ maint_timestamps = <<Ts(2), Ts(3)>>
    /\ Val(maint_flags) = <<FAIL, FAIL>>

-----------------------------------------------------------------------------
(* SpecMatch: match_raw_column on the header list of a raw file and the
   candidate names of a parameter *)

MaxHeaders == 3
MaxCandidates == 2

HeaderTexts == {"TimeStamp", "Temp (C)", "Temp C", "pH", "Other"}

CandidateTexts == {"temp_c", "Temp C", "PH", "SpCond uS/cm"}

\* df.columns: pandas keeps the header texts of a file distinct
HeaderLists ==
    {h \in UNION {[1..n -> HeaderTexts] : n \in 0..MaxHeaders} :
        \A i, j \in 1..Len(h) : i # j => h[i] # h[j]}

MatchInit ==
    /\ raw_headers \in HeaderLists
    /\ raw_candidates \in UNION {[1..n -> CandidateTexts] : n \in 0..MaxCandidates}
    /\ matched_column = None
    /\ diary_path = None /\ maint_periods = None
    /\ maint_timestamps = <<>> /\ maint_flags = None
    /\ param_rules = None /\ param_checks = None
    /\ global_checks = AllOff /\ metadata_index = None
    /\ EvalIdle
    /\ EngineIdle
    /\ CombineIdle
    /\ MergeIdle
    /\ GeneralIdle
    /\ RelocIdle
    /\ ServerIdle
    /\ FetchIdle
    /\ WatchIdle

MatchRawColumn ==
    /\ matched_column = None
    /\ matched_column' = Some(match_raw_column(raw_headers, raw_candidates))
    /\ UNCHANGED <<raw_headers, raw_candidates, diary_path, maint_periods, maint_timestamps,
                   maint_flags, param_rules, param_checks,
                   evalVars, engineVars, combineVars, mergeVars, generalVars, relocVars, serverVars, fetchVars, watchVars>>

MatchNext == MatchRawColumn

SpecMatch == MatchInit /\ [][MatchNext]_vars

\* lowercase with every character outside a-z0-9 removed, for the texts above
Normal(text) ==
    CASE text = "TimeStamp" -> "timestamp"
      [] text \in {"Temp (C)", "Temp C", "temp_c"} -> "tempc"
      [] text \in {"pH", "PH"} -> "ph"
      [] text = "SpCond uS/cm" -> "spconduscm"
      [] text = "Other" -> "other"

MatchingCandidates ==
    {c \in 1..Len(raw_candidates) :
        \E h \in 1..Len(raw_headers) : Normal(raw_headers[h]) = Normal(raw_candidates[c])}

FirstMatchingCandidate == CHOOSE c \in MatchingCandidates : \A d \in MatchingCandidates : c <= d

HeadersMatching(c) ==
    {h \in 1..Len(raw_headers) : Normal(raw_headers[h]) = Normal(raw_candidates[c])}

FirstHeaderMatching(c) == CHOOSE h \in HeadersMatching(c) : \A g \in HeadersMatching(c) : h <= g

\* C14: match_raw_column returns, for the first candidate (in priority order)
\* that matches any header after normalization, the first raw header in
\* header order whose normalized form equals it, as the original header text;
\* it returns None when no candidate matches.
C14_FirstCandidateFirstHeader ==
    matched_column # None =>
        IF MatchingCandidates = {} THEN Val(matched_column) = None
        ELSE Val(matched_column) = Some(raw_headers[FirstHeaderMatching(FirstMatchingCandidate)])

-----------------------------------------------------------------------------
(* Flags per row of evaluate_parameter *)

IsMetadataRow(i) == metadata_index # None /\ Val(metadata_index) = i - 1

\* C15: every flag list is as long as the series read so far; on every row
\* other than the metadata row there is one PASS or FAIL flag per applicable
\* check, and the aggregate flag is FAIL exactly when one of them is FAIL,
\* PASS otherwise, also when no check applies.
C15_OneFlagPerCheckAndAggregate ==
    /\ DOMAIN flag_columns = Range(applicable_checks(rules, global_checks))
    /\ Len(qc_flags) = Len(series)
    /\ \A c \in DOMAIN flag_columns : Len(flag_columns[c]) = Len(series)
    /\ \A i \in 1..Len(series) :
          ~IsMetadataRow(i) =>
              /\ \A c \in DOMAIN flag_columns : flag_columns[c][i] \in {PASS, FAIL}
              /\ qc_flags[i] = (IF \E c \in DOMAIN flag_columns : flag_columns[c][i] = FAIL
                                THEN FAIL ELSE PASS)

\* a row with one failing and one passing check is FAIL, a row whose checks
\* all pass is PASS
C15_Witness ==
    /\ Len(series) >= 2
    /\ \E i \in 1..Len(series) :
          /\ ~IsMetadataRow(i)
          /\ qc_flags[i] = FAIL
          /\ \E c, e \in DOMAIN flag_columns :
                flag_columns[c][i] = FAIL /\ flag_columns[e][i] = PASS
    /\ \E i \in 1..Len(series) :
          /\ ~IsMetadataRow(i)
          /\ qc_flags[i] = PASS
          /\ Cardinality(DOMAIN flag_columns) >= 2

-----------------------------------------------------------------------------
(* SpecApplicable: applicable_checks on the rules a parameter declares and a
   map of global toggles *)

\* param.rules as written in the configuration: None where a key is absent
ParamRuleDicts ==
    [numeric_required : {None, Some(TRUE), Some(FALSE)},
     allow_nulls : {None, Some(TRUE), Some(FALSE)},
     decimal_max : {None, Some(0)},
     min_value : {None, Some(F(2))},
     max_value : {None, Some(F(3))},
     nonnegative_required : {None, Some(TRUE)},
     max_delta_per_step : {None, Some(F(1))},
     streak_threshold : {None, Some(0), Some(2)},
     allowed_values : {None, Some(<<Num(2, 0)>>)}]

\* rules.get(key, False) and rules.get(key) on the keys applicable_checks reads
rules_get(d) ==
    [numeric_required |-> IF d.numeric_required = None THEN FALSE
                          ELSE Val(d.numeric_required),
     allow_nulls |-> IF d.allow_nulls = None THEN FALSE ELSE Val(d.allow_nulls),
     decimal_max |-> d.decimal_max,
     min_value |-> d.min_value,
     max_value |-> d.max_value,
     nonnegative_required |-> IF d.nonnegative_required = None THEN FALSE
                              ELSE Val(d.nonnegative_required),
     max_delta_per_step |-> d.max_delta_per_step,
     streak_threshold |-> d.streak_threshold,
     allowed_values |-> d.allowed_values,
     timestamp_format |-> None]

\* config.checks: all on, all off, one kind off, one kind on, and spike off
\* together with allowed_values
ToggleMaps ==
    {AllOn, AllOff, [AllOn EXCEPT !["spike"] = FALSE, !["allowed_values"] = FALSE]}
        \cup {[AllOn EXCEPT ![c] = FALSE] : c \in CheckKinds}
        \cup {[AllOff EXCEPT ![c] = TRUE] : c \in CheckKinds}

ApplicableInit ==
    /\ \E d \in ParamRuleDicts : param_rules = Some(d) /\ rules = rules_get(d)
    /\ global_checks \in ToggleMaps
    /\ param_checks = None
    /\ metadata_index = None
    /\ series = <<>> /\ idx = 0 /\ last_value = None /\ streak_count = 0
    /\ previous_numeric = None /\ flag_columns = <<>> /\ qc_flags = <<>>
    /\ diary_path = None /\ maint_periods = None
    /\ maint_timestamps = <<>> /\ maint_flags = None
    /\ raw_headers = <<>> /\ raw_candidates = <<>> /\ matched_column = None
    /\ EngineIdle
    /\ CombineIdle
    /\ MergeIdle
    /\ GeneralIdle
    /\ RelocIdle
    /\ ServerIdle
    /\ FetchIdle
    /\ WatchIdle

ApplicableChecks ==
    /\ param_checks = None
    /\ param_checks' = Some(applicable_checks(rules, global_checks))
    /\ UNCHANGED <<diary_path, maint_periods, maint_timestamps, maint_flags,
                   raw_headers, raw_candidates, matched_column, param_rules,
                   evalVars, engineVars, combineVars, mergeVars, generalVars, relocVars, serverVars, fetchVars, watchVars>>

ApplicableNext == ApplicableChecks

SpecApplicable == ApplicableInit /\ [][ApplicableNext]_vars

ToggledKinds == CheckKinds \ {"allowed_values"}

\* the parameter has the rule attribute of the kind among its rules
Declares(kind) ==
    LET d == Val(param_rules)
    IN  CASE kind = "numeric" -> d.numeric_required # None
          [] kind = "completeness" -> d.allow_nulls # None
          [] kind = "format" -> d.decimal_max # None
          [] kind = "range" -> d.min_value # None \/ d.max_value # None
          [] kind = "nonnegative" -> d.nonnegative_required # None
          [] kind = "spike" -> d.max_delta_per_step # None
          [] kind = "flatline" -> d.streak_threshold # None
          [] kind = "allowed_values" -> d.allowed_values # None

Included(kind) == kind \in Range(Val(param_checks))

\* C16: a kind among numeric, completeness, format, range, nonnegative, spike
\* and flatline is included only if its global toggle is on and the
\* parameter declares the corresponding rule attribute; allowed_values is
\* included whenever the parameter declares it, whatever the toggles.
C16_OnlyIfToggledAndDeclared ==
    param_checks # None =>
        /\ \A kind \in ToggledKinds :
              Included(kind) => (global_checks[kind] /\ Declares(kind))
        /\ Declares("allowed_values") => Included("allowed_values")

\* C16 as the code has it: the same for every kind but completeness, which is
\* included exactly when its toggle is on and the parameter does not declare
\* allow_nulls true, so also when it declares nothing.
C16_CompletenessUnlessNullsAllowed ==
    param_checks # None =>
        /\ \A kind \in ToggledKinds \ {"completeness"} :
              Included(kind) => (global_checks[kind] /\ Declares(kind))
        /\ Included("completeness") <=>
              (global_checks["completeness"] /\ Val(param_rules).allow_nulls # Some(TRUE))
        /\ Included("allowed_values") <=> Declares("allowed_values")

\* spike is declared and left out because its toggle alone is off, while
\* allowed_values is included with its toggle off and completeness is
\* included for a parameter that says nothing about nulls
C16_Witness ==
    /\ param_checks # None
    /\ global_checks = [AllOn EXCEPT !["spike"] = FALSE, !["allowed_values"] = FALSE]
    /\ Declares("spike") /\ ~Included("spike")
    /\ Val(param_rules).allow_nulls = None /\ Included("completeness")
    /\ Included("allowed_values")

-----------------------------------------------------------------------------
(* SpecFormat: evaluate_parameter with the format check applicable, on cells
   written with and without decimals *)

\* "", "abc", "2", "2.0", "2.5", "2.50", "1.5e0"
FormatCells == {Txt(""), Txt("abc"), Num(2, 0), Num(20, 1), Num(25, 1), Num(250, 2),
                Sci(15, 1)}

FormatRules ==
    {[NoRules EXCEPT !.decimal_max = Some(d), !.numeric_required = nr] :
        d \in {0, 1}, nr \in BOOLEAN}

FormatInit ==
    /\ series = <<>>
    /\ rules \in FormatRules
    /\ global_checks \in {AllOn, [AllOff EXCEPT !["format"] = TRUE]}
    /\ metadata_index \in {None, Some(0)}
    /\ idx = 0
    /\ last_value = None
    /\ streak_count = 0
    /\ previous_numeric = None
    /\ flag_columns = [c \in Range(checks_to_run) |-> <<>>]
    /\ qc_flags = <<>>
    /\ EngineIdle
    /\ CombineIdle
    /\ MergeIdle
    /\ GeneralIdle
    /\ UnitIdle
    /\ RelocIdle
    /\ ServerIdle
    /\ FetchIdle
    /\ WatchIdle

FormatNextRow == EvalRowFrom(FormatCells)

FormatNext == FormatNextRow

SpecFormat == FormatInit /\ [][FormatNext]_vars

\* the number of digits the text of a numeral has after its decimal point
DigitsAfterPoint(cell) == cell.d

\* C17: with the format check applicable and decimal_max = d, a value that
\* parses as a number is flagged FAIL when its text has more than d digits
\* after the decimal point and PASS when it has d or fewer.
C17_FormatByDigitsAfterPoint ==
    "format" \in DOMAIN flag_columns =>
        \A i \in 1..Len(series) :
            (~IsMetadataRow(i) /\ to_float(series[i]) # None) =>
                flag_columns["format"][i] =
                    (IF DigitsAfterPoint(series[i]) > Val(rules.decimal_max)
                     THEN FAIL ELSE PASS)

-----------------------------------------------------------------------------
(* Statistics of align_combined_rows *)

AlignDone == combine_pc = "done"

\* the aligned output rows that carry a secondary timestamp
CarriesSecondary(row) == notna(row[COLI_TIMESTAMP_COL])

ParseableColi(row) == is_coli(row) /\ to_datetime(row["TimeStamp"]) # None

\* total = matched + unmatched, matched counts the output rows with a
\* secondary timestamp, and the percentage is unmatched / total * 100, or 0
\* without secondary rows
StatsAddUp ==
    /\ stats.total_coliminder_rows
          = stats.matched_coliminder_rows + stats.unmatched_coliminder_rows
    /\ stats.matched_coliminder_rows = CountIn(aligned, CarriesSecondary)
    /\ IF stats.total_coliminder_rows = 0
       THEN stats.unmatched_percentage.num = 0
       ELSE stats.unmatched_percentage.num * stats.total_coliminder_rows
               = stats.unmatched_coliminder_rows * 100 * stats.unmatched_percentage.den

\* C18: the statistics add up, and total is the number of secondary rows
\* given to the alignment pass.
C18_TotalIsSecondaryRowsGiven ==
    AlignDone =>
        /\ StatsAddUp
        /\ stats.total_coliminder_rows = CountIn(combined_rows, is_coli)

\* C18 as the code has it: total is the number of secondary rows given to the
\* pass whose timestamp parses; a secondary row with an unparseable timestamp
\* is counted neither as matched nor as unmatched.
C18_TotalIsParseableSecondaryRows ==
    AlignDone =>
        /\ StatsAddUp
        /\ stats.total_coliminder_rows = CountIn(combined_rows, ParseableColi)

\* three secondary rows of which two are matched: 33.33... per cent unmatched
C18_Witness ==
    /\ AlignDone
    /\ CountIn(combined_rows, is_coli) = 3
    /\ stats.total_coliminder_rows = 3
    /\ stats.matched_coliminder_rows = 2
    /\ CountIn(aligned, CarriesSecondary) = 2
    /\ stats.unmatched_percentage = [num |-> 100, den |-> 3]

-----------------------------------------------------------------------------
(* Parameters of process_file that resolve to no column *)

\* some candidate name of parameter p equals, normalized, a header the file
\* has left after its unwanted columns are dropped
Resolves(p) ==
    \E c \in Range(p.raw_columns), h \in Range(drop_unwanted_columns(file.headers)) :
        normalize_column(c) = normalize_column(h)

NoneResolves ==
    /\ params_for_origin # <<>>
    /\ \A i \in 1..Len(params_for_origin) : ~Resolves(params_for_origin[i])

\* the per-check and <key>_qc_flag columns of the flagged table under a key
FlagColumnsOf(key) ==
    {c \in Range(Flagged.columns) : c.key = key /\ c.kind \in CheckKinds \cup {"qc_flag"}}

\* C19: when no parameter of the origin resolves to a column, process_file
\* takes the "Skipping QC" branch: it raises nothing, returns None and writes
\* neither a flagged nor a cleaned file; when it writes, a parameter that did
\* not resolve has no flag column and one that resolved has its qc_flag column.
C19_UnresolvedParametersAreSkipped ==
    engine_result # "" =>
        /\ NoneResolves <=> engine_result = "skipped"
        /\ engine_result = "skipped" => (flagged_file = None /\ cleaned_file = None)
        /\ engine_result = "written" =>
              \A i \in 1..Len(params_for_origin) :
                  IF Resolves(params_for_origin[i])
                  THEN QcCol(params_for_origin[i].key) \in FlagColumnsOf(params_for_origin[i].key)
                  ELSE FlagColumnsOf(params_for_origin[i].key) = {}

\* a file with data rows none of whose headers any parameter names
C19_Witness ==
    /\ engine_result = "skipped"
    /\ file.rows # <<>>
    /\ Len(params_for_origin) = 3
    /\ flagged_file = None /\ cleaned_file = None

\* a written file for which one parameter resolved and another did not
C19_PartlyResolved ==
    /\ engine_result = "written"
    /\ \E i, j \in 1..Len(params_for_origin) :
          Resolves(params_for_origin[i]) /\ ~Resolves(params_for_origin[j])

-----------------------------------------------------------------------------
(* Exceptions of process_file *)

\* C20: no exception escapes process_file for a reason of data shape: on
\* every file (zero data rows under a valid header, unparseable timestamps,
\* missing or non-numeric cells, absent columns) the call ends by returning
\* a result or no output.
C20_ProcessFileNeverRaises ==
    engine_result # "raised"

-----------------------------------------------------------------------------
(* SpecRelocate: _align_microflu_rows_to_primary_measurements on the frame
   merge_coliminder_into_file has read and given its three columns *)

MaxRelocRows == 3

\* a fresh Observator file of n lines
RelocFile(n, ts, kind) ==
    [columns |-> FreshColumns,
     rows |-> [i \in 1..n |-> FreshRow(i, ts[i], kind[i])]]

RelocInit ==
    /\ \E n \in 0..MaxRelocRows :
          \E ts \in [1..n -> TimestampCells], kind \in [1..n -> FreshKinds] :
              reloc_df = Some(add_new_columns(RelocFile(n, ts, kind)))
    /\ reloc_moved = None /\ reloc_out = None
    /\ global_checks = AllOff /\ metadata_index = None
    /\ EvalIdle
    /\ EngineIdle
    /\ CombineIdle
    /\ MergeIdle
    /\ GeneralIdle
    /\ UnitIdle
    /\ ServerIdle
    /\ FetchIdle
    /\ WatchIdle

reloc_timestamp_col == Val(find_timestamp_column(Val(reloc_df).columns))

reloc_best ==
    IF source_indices(Val(reloc_df), reloc_timestamp_col) = {} THEN <<>>
    ELSE best_sources_from(Val(reloc_df), reloc_timestamp_col,
                           source_indices(Val(reloc_df), reloc_timestamp_col), <<>>)

\* up to the end of the loop over best_sources
MoveMicroflu ==
    /\ reloc_moved = None
    /\ reloc_moved' = Some(microflu_moved(Val(reloc_df), reloc_timestamp_col, reloc_best))
    /\ UNCHANGED <<reloc_df, reloc_out, evalVars, engineVars, combineVars, mergeVars,
                   generalVars, unitVars, serverVars, fetchVars, watchVars>>

\* the rest: the donors without other data are dropped
DropDonors ==
    /\ reloc_moved # None /\ reloc_out = None
    /\ reloc_out' = Some(drop_moved(Val(reloc_moved).df, reloc_timestamp_col,
                                    Val(reloc_moved).moved_sources))
    /\ UNCHANGED <<reloc_df, reloc_moved, evalVars, engineVars, combineVars, mergeVars,
                   generalVars, unitVars, serverVars, fetchVars, watchVars>>

RelocNext == MoveMicroflu \/ DropDonors

SpecRelocate == RelocInit /\ [][RelocNext]_vars

\* the frame before and after, and the line numbers the rows were read from
RelocIn == Val(reloc_df).rows
RelocOut == Val(reloc_out).rows
Relocated == reloc_out # None

HasTime(row) == row["TimeStamp"].k = "ts"
HasMeasurement(row) == row["pH"] # Txt("")
HasMicroflu(row) == row[MICROFLU_COLUMN] # Txt("")

\* rows with a valid timestamp and a primary measurement value
PrimaryRowsIn == {i \in 1..Len(RelocIn) : HasTime(RelocIn[i]) /\ HasMeasurement(RelocIn[i])}

\* stray values: on a row with a valid timestamp and no primary measurement
StrayRowsIn ==
    {i \in 1..Len(RelocIn) :
        HasTime(RelocIn[i]) /\ ~HasMeasurement(RelocIn[i]) /\ HasMicroflu(RelocIn[i])}

LackingRowsIn == {i \in PrimaryRowsIn : ~HasMicroflu(RelocIn[i])}

TimeBetween(i, j) == Abs(RelocIn[i]["TimeStamp"].m - RelocIn[j]["TimeStamp"].m)

\* the rows left with the line number of input row i (none when dropped)
OutOfLine(i) == {k \in 1..Len(RelocOut) : RelocOut[k][LineKey] = RelocIn[i][LineKey]}

\* C22: every stray microFlu_TRP value is moved to a nearest-by-time primary
\* measurement row among those that lack a microFlu_TRP value, and a value
\* already present on a primary measurement row is never overwritten.
C22_EveryStrayMovedToNearestLacking ==
    Relocated =>
        /\ \A s \in StrayRowsIn :
              LackingRowsIn # {} =>
                  \E t \in LackingRowsIn :
                      /\ \A u \in LackingRowsIn : TimeBetween(s, t) <= TimeBetween(s, u)
                      /\ \E k \in OutOfLine(t) :
                            RelocOut[k][MICROFLU_COLUMN] = RelocIn[s][MICROFLU_COLUMN]
        /\ \A p \in PrimaryRowsIn \ LackingRowsIn :
              \E k \in OutOfLine(p) :
                  RelocOut[k][MICROFLU_COLUMN] = RelocIn[p][MICROFLU_COLUMN]

\* the second half alone: no value on a primary measurement row is replaced
C22_PresentValueNeverOverwritten ==
    Relocated =>
        \A p \in PrimaryRowsIn \ LackingRowsIn :
            \E k \in OutOfLine(p) :
                RelocOut[k][MICROFLU_COLUMN] = RelocIn[p][MICROFLU_COLUMN]

\* a donor: a stray row whose value was moved off it
IsDonor(i) ==
    /\ i \in StrayRowsIn
    /\ \A k \in OutOfLine(i) : ~HasMicroflu(RelocOut[k])

IsDropped(i) == OutOfLine(i) = {}

\* a non-empty value in a column other than the timestamp, microFlu_TRP and
\* Signal strength
HasDataBesidesSignal(row) ==
    \E column \in DOMAIN row \ {LineKey, "TimeStamp", MICROFLU_COLUMN, SIGNAL_STRENGTH_COLUMN} :
        row[column] # Txt("")

\* C23: a donor row is dropped if and only if it has no non-empty value in a
\* column other than the timestamp, microFlu_TRP and Signal strength (so a
\* donor left with a Signal strength value only is dropped); no other row is
\* dropped and the rows left keep their order.
C23_DonorDroppedUnlessOtherData ==
    Relocated =>
        /\ \A i \in 1..Len(RelocIn) :
              IsDropped(i) <=> (IsDonor(i) /\ ~HasDataBesidesSignal(RelocIn[i]))
        /\ \A k \in 1..(Len(RelocOut) - 1) : RelocOut[k][LineKey] < RelocOut[k + 1][LineKey]

\* how many rows hold the non-empty microFlu_TRP value v
MicrofluCount(rows, v) ==
    Cardinality({i \in 1..Len(rows) : rows[i][MICROFLU_COLUMN] = v})

MicrofluValues(rows) ==
    {rows[i][MICROFLU_COLUMN] : i \in 1..Len(rows)} \ {Txt("")}

SameMicroflu(before, after) ==
    \A v \in MicrofluValues(before) \cup MicrofluValues(after) :
        MicrofluCount(before, v) = MicrofluCount(after, v)

RelocMoved == Val(reloc_moved).df.rows

\* C30: relocation conserves the microFlu_TRP data: the non-empty values of
\* the table are the same, each as many times, after the moves and after the
\* drop as before (also when several strays share their nearest target), and
\* a row that is dropped holds no microFlu_TRP value when it is dropped.
C30_MicrofluConserved ==
    /\ reloc_moved # None => SameMicroflu(RelocIn, RelocMoved)
    /\ Relocated =>
          /\ SameMicroflu(RelocIn, RelocOut)
          /\ \A i \in 1..Len(RelocMoved) :
                (\A k \in 1..Len(RelocOut) : RelocOut[k][LineKey] # RelocMoved[i][LineKey])
                    => ~HasMicroflu(RelocMoved[i])

\* two strays share their nearest target: the value of one is on the target
\* and its donor is dropped, the other stays where it was
C30_Witness ==
    /\ Relocated
    /\ Len(RelocIn) = 3 /\ Len(RelocOut) = 2
    /\ Cardinality(StrayRowsIn) = 2
    /\ Cardinality(LackingRowsIn) = 1
    /\ \E t \in LackingRowsIn, s \in StrayRowsIn :
          /\ IsDropped(s)
          /\ \E k \in OutOfLine(t) : RelocOut[k][MICROFLU_COLUMN] = RelocIn[s][MICROFLU_COLUMN]
    /\ \E s \in StrayRowsIn :
          \E k \in OutOfLine(s) : RelocOut[k][MICROFLU_COLUMN] = RelocIn[s][MICROFLU_COLUMN]

-----------------------------------------------------------------------------
(* The rows of the file a secondary row may be written into *)

MergeRowTime(p) == merge_df.rows[p][merge_timestamp_col].m * 100

ValidRows == {p \in 1..Len(merge_df.rows) : merge_df.rows[p][merge_timestamp_col].k = "ts"}

MeasuredRows ==
    {p \in ValidRows : "pH" \in DOMAIN merge_df.rows[p] /\ merge_df.rows[p]["pH"] # Txt("")}

\* the valid-timestamp rows with a primary measurement value if there is
\* one, all valid-timestamp rows otherwise
EligibleRows == IF MeasuredRows # {} THEN MeasuredRows ELSE ValidRows

MinTime == CHOOSE t \in {MergeRowTime(p) : p \in ValidRows} :
              \A p \in ValidRows : t <= MergeRowTime(p)
MaxTime == CHOOSE t \in {MergeRowTime(p) : p \in ValidRows} :
              \A p \in ValidRows : t >= MergeRowTime(p)

\* the row of the file as read that has the line number of row p of df
InputOfRow(p) ==
    observator_file.rows[CHOOSE i \in 1..Len(observator_file.rows) :
                            observator_file.rows[i][LineKey] = merge_df.rows[p][LineKey]]

InputCell(p, column) ==
    IF column \in DOMAIN InputOfRow(p) THEN InputOfRow(p)[column] ELSE Txt("")

\* C24: a secondary row is assigned only to an eligible row, and to one that
\* is nearest to it among the eligible rows; rows outside the eligible set
\* keep the three cells they were read with; no secondary row with a time
\* outside [min, max] of the valid timestamps of the file is matched.
C24_OnlyEligibleRowsReceive ==
    MergeLooped =>
        /\ \A p \in DOMAIN merge_assignments :
              /\ p \in EligibleRows
              /\ \A q \in EligibleRows :
                    Abs(MergeRowTime(p) - merge_assignments[p].col_time)
                        <= Abs(MergeRowTime(q) - merge_assignments[p].col_time)
              /\ merge_assignments[p].col_time >= MinTime
              /\ merge_assignments[p].col_time <= MaxTime
        /\ \A c \in 1..Len(col_df) :
              col_time(col_df[c]) >= MinTime /\ col_time(col_df[c]) <= MaxTime
        /\ merge_pc = "done" =>
              \A p \in 1..Len(Written.rows) :
                  p \notin EligibleRows =>
                      \A column \in Range(new_columns) :
                          Written.rows[p][column] = InputCell(p, column)

\* a secondary row goes to the measurement row although a row without
\* measurement is nearer to it, and a secondary row after the last timestamp
\* of the file is left out
C24_Witness ==
    /\ merge_pc = "done" /\ merge_log = ""
    /\ \E p \in DOMAIN merge_assignments, q \in ValidRows \ EligibleRows :
          Abs(MergeRowTime(q) - merge_assignments[p].col_time)
              < Abs(MergeRowTime(p) - merge_assignments[p].col_time)
    /\ \E j \in 1..Len(ExportRows) : col_time(ExportRows[j]) > MaxTime
    /\ Len(col_df) < Len(ExportRows)

-----------------------------------------------------------------------------
(* The metadata row of process_file *)

\* the timestamp column of the file: the header the TimeStamp parameter
\* resolves to
TimestampHeaders == Range(drop_unwanted_columns(file.headers)) \cap {"TimeStamp", "timestamp"}

FirstTimestampFails ==
    /\ TimestampHeaders # {}
    /\ \E h \in TimestampHeaders : file.rows[1][h].k # "ts"

\* the series of the raw column of parameter key, without the first row
SeriesWithoutFirst(key) ==
    [i \in 1..(Len(file.rows) - 1) |->
        file.rows[i + 1][map_columns(drop_unwanted_columns(file.headers),
                                     params_for_origin)[key]]]

RulesOf(key) ==
    params_for_origin[CHOOSE i \in 1..Len(params_for_origin) :
                         params_for_origin[i].key = key].rules

StateColumns == {c \in Range(Flagged.columns) : c.kind \in {"spike", "flatline"}}

\* C25: row 0 is designated metadata exactly when the file has a timestamp
\* column and the timestamp of row 0 does not parse, and no other row ever
\* is; every check flag, aggregate flag, origin, maintenance_flag and
\* overall_dq_check of the metadata row is empty; the spike and flatline
\* flags of the later rows are those of the series evaluated without row 0.
C25_MetadataRowBlankAndInert ==
    engine_result = "written" =>
        /\ metadata_index \in {None, Some(0)}
        /\ metadata_index = Some(0) <=> FirstTimestampFails
        /\ \A i \in 1..Len(file.rows) :
              ~IsDesignatedMetadata(i) =>
                  /\ FlaggedRow(i)[OverallCol] \in {Txt(PASS), Txt(FAIL)}
                  /\ FlaggedRow(i)[OriginCol] # Txt("")
        /\ metadata_index = Some(0) =>
              /\ \A c \in FlagColumnsOfTable \cup {OriginCol, OverallCol} :
                    FlaggedRow(1)[c] = Txt("")
              /\ \A c \in StateColumns : \A i \in 2..Len(file.rows) :
                    FlaggedRow(i)[c] =
                        Txt(evaluate_parameter(SeriesWithoutFirst(c.key), RulesOf(c.key),
                                               global_checks, None).flag_columns[c.kind][i - 1])

\* the metadata row holds 2 in a column checked for spikes and flat lines,
\* the next row holds 5 or 2: it passes both checks, as the first row of a
\* series does
C25_Witness ==
    /\ engine_result = "written"
    /\ metadata_index = Some(0)
    /\ Len(file.rows) = 2
    /\ \E c, e \in StateColumns :
          /\ c.kind = "spike" /\ e.kind = "flatline" /\ c.key = "Temp_C" /\ e.key = "Temp_C"
          /\ file.rows[1]["Temp (C)"] = Num(2, 0)
          /\ file.rows[2]["Temp (C)"] \in {Num(2, 0), Num(5, 0)}
          /\ FlaggedRow(2)[c] = Txt(PASS) /\ FlaggedRow(2)[e] = Txt(PASS)

-----------------------------------------------------------------------------
(* SpecServer: the FTP handler thread and the processing worker thread *)

MaxPuts == 2

\* a path under the upload directory; sub tells a path in a subdirectory
UploadPath(sub, stem, ext) == [sub |-> sub, stem |-> stem, ext |-> ext]

ClientPaths ==
    {UploadPath(FALSE, "temp", ".$$$"), UploadPath(FALSE, "a", ".csv"),
     UploadPath(FALSE, "b", ".CSV"), UploadPath(TRUE, "a", ".csv")}

\* what fetch_coliminder_once leaves in the raw input directory
ColiminderPath == UploadPath(FALSE, "coliminder", ".csv")

\* str.lower on the extension of a path
lower_ext(ext) == IF ext = ".CSV" THEN ".csv" ELSE ext

\* a stand-in that takes every destination for a CSV
ends_with_csv_always(dst) == TRUE

\* dst.lower().endswith(".csv")
ends_with_csv(dst) == lower_ext(dst.ext) = ".csv"

\* os.path.join(self.upload_dir, os.path.basename(dst))
final_path_of(dst) == [dst EXCEPT !.sub = FALSE]

\* os.rename / fs.rename inside a directory listing; the listing is
\* unchanged when the source is missing
renamed(dir, src, dst) == IF src \in dir THEN (dir \ {src}) \cup {dst} ELSE dir

ServerInit ==
    /\ upload_dir = {} /\ raw_input_dir = {} /\ processing_queue = <<>>
    /\ last_rnfr = None /\ rnfr = None
    /\ worker_pc = "get" /\ file_path = None /\ raised = FALSE
    /\ unfinished_tasks = 0 /\ put_log = <<>> /\ get_log = <<>>
    /\ enable_azure_uploads \in BOOLEAN
    /\ global_checks = AllOff /\ metadata_index = None
    /\ EvalIdle
    /\ EngineIdle
    /\ CombineIdle
    /\ MergeIdle
    /\ GeneralIdle
    /\ UnitIdle
    /\ RelocIdle
    /\ FetchIdle
    /\ WatchIdle

\* a client stores a file; on_file_received only logs
on_file_received(path) ==
    /\ upload_dir' = upload_dir \cup {path}
    /\ UNCHANGED <<raw_input_dir, processing_queue, last_rnfr, rnfr, worker_pc, file_path,
                   raised, unfinished_tasks, put_log, get_log, enable_azure_uploads>>
    /\ UNCHANGED <<evalVars, engineVars, combineVars, mergeVars, generalVars, unitVars, relocVars, fetchVars, watchVars>>

\* the handler remembers the source; the base class accepts it when it exists
ftp_RNFR(path) ==
    /\ last_rnfr' = Some(path)
    /\ rnfr' = IF path \in upload_dir THEN Some(path) ELSE rnfr
    /\ UNCHANGED <<upload_dir, raw_input_dir, processing_queue, worker_pc, file_path,
                   raised, unfinished_tasks, put_log, get_log, enable_azure_uploads>>
    /\ UNCHANGED <<evalVars, engineVars, combineVars, mergeVars, generalVars, unitVars, relocVars, fetchVars, watchVars>>

\* the directory after super().ftp_RNTO(path)
after_base_rename(dst) == IF rnfr = None THEN upload_dir ELSE renamed(upload_dir, Val(rnfr), dst)

\* whether ftp_RNTO reaches processing_queue.put: the destination names a
\* CSV, and the move into the upload directory, if one is needed, succeeds
reaches_put(dst) ==
    /\ ends_with_csv(dst)
    /\ dst # final_path_of(dst) => dst \in after_base_rename(dst)

ftp_RNTO(dst) ==
    /\ Len(put_log) < MaxPuts
    /\ rnfr' = None
    /\ upload_dir' = IF ends_with_csv(dst) /\ dst # final_path_of(dst)
                     THEN renamed(after_base_rename(dst), dst, final_path_of(dst))
                     ELSE after_base_rename(dst)
    /\ IF reaches_put(dst)
       THEN /\ processing_queue' = Append(processing_queue, final_path_of(dst))
            /\ unfinished_tasks' = unfinished_tasks + 1
            /\ put_log' = Append(put_log, final_path_of(dst))
       ELSE UNCHANGED <<processing_queue, unfinished_tasks, put_log>>
    /\ UNCHANGED <<raw_input_dir, last_rnfr, worker_pc, file_path, raised, get_log,
                   enable_azure_uploads>>
    /\ UNCHANGED <<evalVars, engineVars, combineVars, mergeVars, generalVars, unitVars, relocVars, fetchVars, watchVars>>

\* worker: file_path = processing_queue.get()
QueueGet ==
    /\ worker_pc = "get"
    /\ processing_queue # <<>>
    /\ file_path' = Some(Head(processing_queue))
    /\ processing_queue' = Tail(processing_queue)
    /\ get_log' = Append(get_log, Head(processing_queue))
    /\ worker_pc' = "process_data"
    /\ UNCHANGED <<upload_dir, raw_input_dir, last_rnfr, rnfr, raised, unfinished_tasks,
                   put_log, enable_azure_uploads>>
    /\ UNCHANGED <<evalVars, engineVars, combineVars, mergeVars, generalVars, unitVars, relocVars, fetchVars, watchVars>>

\* process_data: the existence test, then copy_raw_input
CopyRawInput ==
    /\ worker_pc = "process_data"
    /\ IF Val(file_path) \notin upload_dir
       THEN /\ worker_pc' = "task_done"
            /\ UNCHANGED raw_input_dir
       ELSE /\ worker_pc' = "fetch_merge_run"
            /\ raw_input_dir' = raw_input_dir \cup {Val(file_path)}
    /\ UNCHANGED <<upload_dir, processing_queue, last_rnfr, rnfr, file_path, raised,
                   unfinished_tasks, put_log, get_log, enable_azure_uploads>>
    /\ UNCHANGED <<evalVars, engineVars, combineVars, mergeVars, generalVars, unitVars, relocVars, fetchVars, watchVars>>

\* process_data: fetch, merge, copy back to uploads, run_once; any of them
\* may raise
FetchMergeRun ==
    /\ worker_pc = "fetch_merge_run"
    /\ \E fetched, raises \in BOOLEAN :
          /\ raw_input_dir' = IF fetched THEN raw_input_dir \cup {ColiminderPath}
                              ELSE raw_input_dir
          /\ IF raises
             THEN /\ raised' = TRUE
                  /\ worker_pc' = "task_done"
                  /\ UNCHANGED upload_dir
             ELSE /\ upload_dir' = upload_dir \cup {Val(file_path)}
                  /\ worker_pc' = "uploads"
                  /\ UNCHANGED raised
    /\ UNCHANGED <<processing_queue, last_rnfr, rnfr, file_path, unfinished_tasks,
                   put_log, get_log, enable_azure_uploads>>
    /\ UNCHANGED <<evalVars, engineVars, combineVars, mergeVars, generalVars, unitVars, relocVars, fetchVars, watchVars>>

\* process_data: the uploads and the clean-up of both directories
UploadAndClear ==
    /\ worker_pc = "uploads"
    /\ \E all_success, raw_failed \in BOOLEAN :
          IF enable_azure_uploads /\ ~all_success
          THEN /\ raw_input_dir' = IF raw_failed THEN raw_input_dir \ {Val(file_path)}
                                   ELSE raw_input_dir
               /\ UNCHANGED upload_dir
          ELSE /\ raw_input_dir' = {}
               /\ upload_dir' = {}
    /\ worker_pc' = "task_done"
    /\ UNCHANGED <<processing_queue, last_rnfr, rnfr, file_path, raised, unfinished_tasks,
                   put_log, get_log, enable_azure_uploads>>
    /\ UNCHANGED <<evalVars, engineVars, combineVars, mergeVars, generalVars, unitVars, relocVars, fetchVars, watchVars>>

\* worker: the finally clause; an exception of process_data then leaves the
\* loop and ends the thread
TaskDone ==
    /\ worker_pc = "task_done"
    /\ unfinished_tasks' = unfinished_tasks - 1
    /\ file_path' = None
    /\ worker_pc' = IF raised THEN "dead" ELSE "get"
    /\ UNCHANGED <<upload_dir, raw_input_dir, processing_queue, last_rnfr, rnfr, raised,
                   put_log, get_log, enable_azure_uploads>>
    /\ UNCHANGED <<evalVars, engineVars, combineVars, mergeVars, generalVars, unitVars, relocVars, fetchVars, watchVars>>

HandlerNext ==
    \E path \in ClientPaths : on_file_received(path) \/ ftp_RNFR(path) \/ ftp_RNTO(path)

WorkerNext == QueueGet \/ CopyRawInput \/ FetchMergeRun \/ UploadAndClear \/ TaskDone

ServerNext == HandlerNext \/ WorkerNext

SpecServer == ServerInit /\ [][ServerNext]_vars

\* the worker is a started thread: the operating system keeps scheduling it
\* while it has a step to take
SpecServerFair == SpecServer /\ WF_vars(WorkerNext)

Running == worker_pc \in {"process_data", "fetch_merge_run", "uploads", "task_done"}

\* C21: the worker hands the files to process_data in the order of the
\* puts, one at a time (the one in hand is the latest taken, and no task is
\* counted twice), and every path put is a CSV destination placed in the
\* upload directory.
C21_OneWorkerInPutOrder ==
    /\ put_log = get_log \o processing_queue
    /\ \A i \in 1..Len(put_log) : lower_ext(put_log[i].ext) = ".csv" /\ ~put_log[i].sub
    /\ Running <=> file_path # None
    /\ file_path # None => Val(file_path) = get_log[Len(get_log)]
    /\ unfinished_tasks = Len(processing_queue) + (IF file_path # None THEN 1 ELSE 0)

\* two different files were put while the first was in hand, and the first
\* put is the one in hand
C21_Witness ==
    /\ Len(put_log) = 2 /\ put_log[1] # put_log[2]
    /\ Running /\ Val(file_path) = put_log[1]
    /\ processing_queue = <<put_log[2]>>

\* C26: under fair scheduling of the worker every path put on the queue is
\* eventually taken from it and handed to process_data.
C26_EveryPutIsEventuallyTaken ==
    \A k \in 1..MaxPuts : (Len(put_log) >= k) ~> (Len(get_log) >= k)

InHand == IF file_path = None THEN {} ELSE {Val(file_path)}

\* C27: no step of the worker removes from the upload directory a file,
\* other than the one it is processing, that is waiting in the queue.
C27_CleanupSparesQueuedFiles ==
    [][WorkerNext => \A p \in Range(processing_queue) \ InHand :
                        p \in upload_dir => p \in upload_dir']_vars

-----------------------------------------------------------------------------
(* SpecFetch: runs of check_for_update, one after the other *)

MaxRuns == 3

ServerTimestamps == {1, 2}
ServerContents == {"x", "y"}
CsvFilenames == {"results_red_V01_04.csv", "coliminder.csv"}

\* hashlib.sha256(data).hexdigest(), taken to be free of collisions
sha256_bytes(data) == [sha256 |-> data]

\* "coliminder" in output_filename.lower()
mentions_coliminder(name) == name = "coliminder.csv"

\* a file left by an earlier version under the name <stamp>__<csv_filename>
LegacyDownload == [base |-> "__", stamp |-> None]

\* output_path of a run without site key
output_path_of(name, timestamp) ==
    IF mentions_coliminder(name) THEN [base |-> name, stamp |-> None]
    ELSE [base |-> "raw_data_ColiMinder_coliminder", stamp |-> Some(timestamp)]

\* Path.write_bytes in a directory listing
write_bytes(dir, path, content) ==
    [n \in DOMAIN dir \cup {path} |-> IF n = path THEN content ELSE dir[n]]

\* download_dir.glob("*__" + csv_filename), each match unlinked
cleanup_timestamped_downloads(dir) ==
    [n \in DOMAIN dir \ {LegacyDownload} |-> dir[n]]

FetchState(dir, ts, hash, ret) ==
    [download_dir |-> dir, last_timestamp |-> ts, last_csv_hash |-> hash, returned |-> ret]

\* check_for_update: timestamp, first and second are what fetch_timestamp
\* and the two download_csv calls return (None on failure)
check_for_update(dir, ts, hash, name, timestamp, first, second) ==
    IF timestamp = None THEN FetchState(dir, ts, hash, None)
    ELSE IF ts = timestamp /\ output_path_of(name, Val(timestamp)) \in DOMAIN dir
    THEN FetchState(dir, ts, hash, Some(output_path_of(name, Val(timestamp))))
    ELSE IF first = None THEN FetchState(dir, ts, hash, None)
    ELSE IF second = None THEN FetchState(dir, ts, hash, None)
    ELSE IF hash = Some(sha256_bytes(Val(second)))
    THEN FetchState(cleanup_timestamped_downloads(
                        IF output_path_of(name, Val(timestamp)) \in DOMAIN dir THEN dir
                        ELSE write_bytes(dir, output_path_of(name, Val(timestamp)), Val(second))),
                    timestamp, Some(sha256_bytes(Val(second))),
                    Some(output_path_of(name, Val(timestamp))))
    ELSE FetchState(write_bytes(cleanup_timestamped_downloads(dir),
                                output_path_of(name, Val(timestamp)), Val(second)),
                    timestamp, Some(sha256_bytes(Val(second))),
                    Some(output_path_of(name, Val(timestamp))))

\* whether a run with these server answers gets as far as the downloads
downloads_csv(dir, ts, name, timestamp) ==
    /\ timestamp # None
    /\ ~(ts = timestamp /\ output_path_of(name, Val(timestamp)) \in DOMAIN dir)

FetchInit ==
    /\ csv_filename \in CsvFilenames
    /\ download_dir \in {<<>>, write_bytes(<<>>, LegacyDownload, "x")}
    /\ last_timestamp = None /\ last_csv_hash = None
    /\ fetch_returned = None /\ fetch_run = None /\ fetch_count = 0
    /\ global_checks = AllOff /\ metadata_index = None
    /\ EvalIdle
    /\ EngineIdle
    /\ CombineIdle
    /\ MergeIdle
    /\ GeneralIdle
    /\ UnitIdle
    /\ RelocIdle
    /\ ServerIdle
    /\ WatchIdle

\* fetch_coliminder_once: one run of check_for_update
FetchColiminderOnce ==
    /\ fetch_count < MaxRuns
    /\ \E timestamp \in {None} \cup {Some(t) : t \in ServerTimestamps},
          first, second \in {None} \cup {Some(c) : c \in ServerContents} :
          LET run == check_for_update(download_dir, last_timestamp, last_csv_hash,
                                      csv_filename, timestamp, first, second)
              downloading == downloads_csv(download_dir, last_timestamp, csv_filename, timestamp)
          IN  /\ download_dir' = run.download_dir
              /\ last_timestamp' = run.last_timestamp
              /\ last_csv_hash' = run.last_csv_hash
              /\ fetch_returned' = run.returned
              /\ fetch_run' = Some([timestamp |-> timestamp,
                                    first |-> IF downloading THEN first ELSE None,
                                    second |-> IF downloading /\ first # None THEN second
                                               ELSE None,
                                    before |-> <<download_dir, last_timestamp, last_csv_hash>>])
    /\ fetch_count' = fetch_count + 1
    /\ UNCHANGED csv_filename
    /\ UNCHANGED <<evalVars, engineVars, combineVars, mergeVars, generalVars, unitVars, relocVars, serverVars, watchVars>>

FetchNext == FetchColiminderOnce

SpecFetch == FetchInit /\ [][FetchNext]_vars

LastRun == Val(fetch_run)

RunFailed ==
    \/ LastRun.timestamp = None
    \/ /\ downloads_csv(LastRun.before[1], LastRun.before[2], csv_filename, LastRun.timestamp)
       /\ (LastRun.first = None \/ LastRun.second = None)

\* C28: a run that returns a path returns the path of an existing file; if
\* the run downloaded, that file holds the second download and
\* last_csv_hash is the hash of it; a run whose timestamp fetch or a
\* download failed returns None and leaves the two state files and the
\* download directory as they were.
C28_ReturnedFileIsSecondDownload ==
    fetch_run # None =>
        /\ fetch_returned # None =>
              /\ Val(fetch_returned) \in DOMAIN download_dir
              /\ LastRun.second # None =>
                    /\ download_dir[Val(fetch_returned)] = Val(LastRun.second)
                    /\ last_csv_hash = Some(sha256_bytes(Val(LastRun.second)))
        /\ RunFailed =>
              /\ fetch_returned = None
              /\ <<download_dir, last_timestamp, last_csv_hash>> = LastRun.before

\* the parts of C28 that do not depend on what the file found holds
C28_ReturnedFileExistsAndFailuresChangeNothing ==
    fetch_run # None =>
        /\ fetch_returned # None =>
              /\ Val(fetch_returned) \in DOMAIN download_dir
              /\ LastRun.second # None =>
                    last_csv_hash = Some(sha256_bytes(Val(LastRun.second)))
        /\ RunFailed =>
              /\ fetch_returned = None
              /\ <<download_dir, last_timestamp, last_csv_hash>> = LastRun.before

-----------------------------------------------------------------------------
(* SpecWatch: run_watch, the watchdog handler thread and the polling sweep *)

MaxMtime == 2

WatchNames == {"a.csv", "b.csv", "Anne kanal diary.csv"}

\* a .csv name other than the diary whose origin is detected
is_raw_file(name) == name \in {"a.csv", "b.csv"}

\* d[k] = v on a dict
dict_set(d, k, v) == [n \in DOMAIN d \cup {k} |-> IF n = k THEN v ELSE d[n]]

\* last_mtime is not None and mtime <= last_mtime
already_processed(tracker, name, mtime) ==
    name \in DOMAIN tracker /\ mtime <= tracker[name]

\* the versions processed with output, and those among them processed with
\* output more than once
logged(log, job) ==
    IF job \in log.once THEN [log EXCEPT !.again = @ \cup {job}]
    ELSE [log EXCEPT !.once = @ \cup {job}]

\* the job either thread takes on for a name, if any
job_for(name) ==
    IF /\ is_raw_file(name)
       /\ name \in DOMAIN raw_dir
       /\ ~already_processed(mtime_tracker, name, raw_dir[name])
    THEN Some([path |-> name, mtime |-> raw_dir[name]])
    ELSE None

\* the orders in which os.listdir may give the raw files
Listings ==
    {l \in UNION {[1..n -> DOMAIN raw_dir] : n \in 0..Cardinality(DOMAIN raw_dir)} :
        /\ Range(l) = {n \in DOMAIN raw_dir : is_raw_file(n)}
        /\ \A i, j \in 1..Len(l) : i # j => l[i] # l[j]}

WatchInit ==
    /\ raw_dir = <<>> /\ watch_events = {} /\ mtime_tracker = <<>>
    /\ handler_job = None /\ sweep_pc = "sleep" /\ sweep_pending = <<>>
    /\ sweep_job = None /\ processed_log = [once |-> {}, again |-> {}]
    /\ global_checks = AllOff /\ metadata_index = None
    /\ EvalIdle
    /\ EngineIdle
    /\ CombineIdle
    /\ MergeIdle
    /\ GeneralIdle
    /\ UnitIdle
    /\ RelocIdle
    /\ FetchIdle
    /\ ServerIdle

\* a file is created, or rewritten at a later time, in the input folder; the
\* observer queues an event for it
WriteRawFile ==
    /\ sweep_pc # "exited"
    /\ \E name \in WatchNames, m \in 1..MaxMtime :
          /\ name \in DOMAIN raw_dir => m > raw_dir[name]
          /\ raw_dir' = dict_set(raw_dir, name, m)
          /\ watch_events' = watch_events \cup {name}
    /\ UNCHANGED <<mtime_tracker, handler_job, sweep_pc, sweep_pending, sweep_job, processed_log>>
    /\ UNCHANGED <<evalVars, engineVars, combineVars, mergeVars, generalVars, unitVars, relocVars, fetchVars, serverVars>>

\* _handle_event up to the call of process_file
HandleEvent ==
    /\ sweep_pc # "exited"
    /\ handler_job = None
    /\ \E name \in watch_events :
          /\ watch_events' = watch_events \ {name}
          /\ handler_job' = job_for(name)
    /\ UNCHANGED <<raw_dir, mtime_tracker, sweep_pc, sweep_pending, sweep_job, processed_log>>
    /\ UNCHANGED <<evalVars, engineVars, combineVars, mergeVars, generalVars, unitVars, relocVars, fetchVars, serverVars>>

\* _handle_event: process_file returns or raises
HandleEventDone ==
    /\ sweep_pc # "exited"
    /\ handler_job # None
    /\ \E outcome \in {"output", "none", "raise"} :
          IF outcome = "output"
          THEN /\ mtime_tracker' = dict_set(mtime_tracker, Val(handler_job).path,
                                            Val(handler_job).mtime)
               /\ processed_log' = logged(processed_log, Val(handler_job))
          ELSE UNCHANGED <<mtime_tracker, processed_log>>
    /\ handler_job' = None
    /\ UNCHANGED <<raw_dir, watch_events, sweep_pc, sweep_pending, sweep_job>>
    /\ UNCHANGED <<evalVars, engineVars, combineVars, mergeVars, generalVars, unitVars, relocVars, fetchVars, serverVars>>

\* run_watch: the sleep is over; _process_pending_files lists the folder
SweepStart ==
    /\ sweep_pc = "sleep"
    /\ sweep_pending' \in Listings
    /\ sweep_pc' = "sweep"
    /\ UNCHANGED <<raw_dir, watch_events, mtime_tracker, handler_job, sweep_job, processed_log>>
    /\ UNCHANGED <<evalVars, engineVars, combineVars, mergeVars, generalVars, unitVars, relocVars, fetchVars, serverVars>>

\* _process_pending_files: the next file up to the call of process_file, or
\* the end of the loop
SweepNext ==
    /\ sweep_pc = "sweep"
    /\ sweep_job = None
    /\ IF sweep_pending = <<>>
       THEN /\ sweep_pc' = "sleep"
            /\ UNCHANGED <<sweep_pending, sweep_job>>
       ELSE /\ sweep_job' = job_for(Head(sweep_pending))
            /\ sweep_pending' = Tail(sweep_pending)
            /\ UNCHANGED sweep_pc
    /\ UNCHANGED <<raw_dir, watch_events, mtime_tracker, handler_job, processed_log>>
    /\ UNCHANGED <<evalVars, engineVars, combineVars, mergeVars, generalVars, unitVars, relocVars, fetchVars, serverVars>>

\* _process_pending_files: process_file returns, or raises and ends run_watch
SweepDone ==
    /\ sweep_pc = "sweep"
    /\ sweep_job # None
    /\ \E outcome \in {"output", "none", "raise"} :
          /\ IF outcome = "output"
             THEN /\ mtime_tracker' = dict_set(mtime_tracker, Val(sweep_job).path,
                                               Val(sweep_job).mtime)
                  /\ processed_log' = logged(processed_log, Val(sweep_job))
             ELSE UNCHANGED <<mtime_tracker, processed_log>>
          /\ sweep_pc' = IF outcome = "raise" THEN "exited" ELSE sweep_pc
    /\ sweep_job' = None
    /\ UNCHANGED <<raw_dir, watch_events, handler_job, sweep_pending>>
    /\ UNCHANGED <<evalVars, engineVars, combineVars, mergeVars, generalVars, unitVars, relocVars, fetchVars, serverVars>>

WatchNext ==
    \/ WriteRawFile
    \/ HandleEvent
    \/ HandleEventDone
    \/ SweepStart
    \/ SweepNext
    \/ SweepDone

SpecWatch == WatchInit /\ [][WatchNext]_vars

\* both threads are inside process_file for the same path
Overlap ==
    /\ handler_job # None /\ sweep_job # None
    /\ Val(handler_job).path = Val(sweep_job).path

\* C29: no version (path, mtime) is processed with output twice, and the two
\* threads are never inside process_file for the same path together.
C29_OncePerVersionNoOverlap ==
    /\ processed_log.again = {}
    /\ ~Overlap

\* what the tracker does give: a thread that finds the version recorded does
\* not process it
C29_RecordedVersionIsNotTaken ==
    [][\A name \in DOMAIN mtime_tracker :
          /\ name \in DOMAIN raw_dir /\ raw_dir[name] <= mtime_tracker[name]
          /\ (HandleEvent \/ SweepNext)
          => /\ ~(handler_job = None /\ handler_job' # None /\ Val(handler_job').path = name)
             /\ ~(sweep_job = None /\ sweep_job' # None /\ Val(sweep_job').path = name)]_vars

=============================================================================
